---- MODULE Spec2Model ----
\* Project_Todo_Manager: the server's project service (status derivation,
\* progress roll-up, hierarchy assembly) over the relational store.
EXTENDS Integers, Sequences, FiniteSets, TLC

\* ------------------------------------------------------------------ bounds
\* ids handed out by nanoid over the life of one store (all tables together)
MaxIds == 4
\* longest list of child statuses / percentages given to the pure functions
MaxLen == 4
\* the longest list of ids sent to reorder
MaxReorder == 2
\* the user's clicks and keystrokes in one session of the browser
MaxClicks == 2
\* the projects made before the browser is opened
MaxProjects == 2
\* the layouts rendered (data, toggles, viewport) and the times the project
\* view is mounted in one session of the browser
MaxLayouts == 3
MaxMounts == 3

\* ------------------------------------------------------------------ values
\* JavaScript undefined and SQL NULL / JavaScript null
Undefined == "undefined"
Null == "null"
\* the strings a request can carry in a date field
Empty == ""
Blank == "  "
Date1 == "2025-02-01"
Padded == " 2025-02-01 "
DateStrings == {Empty, Blank, Date1, Padded}
\* z.string().optional(): the field is absent or is any string
PayloadDates == {Undefined} \cup DateStrings
Titles == {"a", "b"}
\* DEMO_USER_ID, the one row of the users table
DemoUser == "demo-user"
\* the JavaScript booleans, and the todayFlag column's 1 and 0
True == "true"
False == "false"
Flag1 == "1"
Flag0 == "0"
\* date('now'), and a later day
Today == "2025-03-01"
Tomorrow == "2025-03-02"
TodoStatus == {"NOT_STARTED", "IN_PROGRESS", "DONE"}
Ids == 1..MaxIds

\* String.prototype.trim on the strings above
Trim(value) ==
  CASE value = Blank -> Empty
    [] value = Padded -> Date1
    [] OTHER -> value

\* a ?? b
Coalesce(value, default) == IF value \in {Undefined, Null} THEN default ELSE value

\* Boolean(value) for undefined | null | string
Truthy(value) == value \notin {Undefined, Null, Empty}

\* ------------------------------------------------------------------ domain/status
\* the same looking at actualStart only
deriveStatusFromActualStartOnly(actualStart, actualEnd) ==
  IF Truthy(actualStart) THEN "IN_PROGRESS" ELSE "NOT_STARTED"

deriveStatusFromActual(actualStart, actualEnd) ==
  LET hasStart == Truthy(actualStart)
      hasEnd == Truthy(actualEnd)
  IN  IF hasEnd THEN "DONE" ELSE IF hasStart THEN "IN_PROGRESS" ELSE "NOT_STARTED"

\* ------------------------------------------------------------------ domain/progress
\* Math.round(num / den) for num >= 0, den > 0: floor(num / den + 1/2)
MathRound(num, den) == (2 * num + den) \div (2 * den)

\* the weight 0 / 0.5 / 1, counted in halves
\* the same with only DONE counting
statusToProgressValueDoneOnly(status) == IF status = "DONE" THEN 2 ELSE 0

statusToProgressValue(status) ==
  CASE status = "DONE" -> 2
    [] status = "IN_PROGRESS" -> 1
    [] OTHER -> 0

RECURSIVE SumSeq(_)
SumSeq(values) == IF values = <<>> THEN 0 ELSE Head(values) + SumSeq(Tail(values))

\* the same with Math.floor in place of Math.round
calculateProgressFromStatusesFloor(statuses) ==
  IF Len(statuses) = 0 THEN 0
  ELSE LET total == SumSeq([i \in 1..Len(statuses) |-> statusToProgressValue(statuses[i])])
       IN  (total * 100) \div (2 * Len(statuses))

calculateProgressFromStatuses(statuses) ==
  IF Len(statuses) = 0 THEN 0
  ELSE LET total == SumSeq([i \in 1..Len(statuses) |-> statusToProgressValue(statuses[i])])
       IN  MathRound(total * 100, 2 * Len(statuses))

progressFromStatus(status) == MathRound(statusToProgressValue(status) * 100, 2)

combineProgress(values) ==
  IF Len(values) = 0 THEN 0 ELSE MathRound(SumSeq(values), Len(values))

\* ------------------------------------------------------------------ application/projectService helpers
\* the same with the node's own status counted among its children
deriveProgressFromStatusesBlend(childStatuses, ownStatus) ==
  calculateProgressFromStatuses(Append(childStatuses, ownStatus))

deriveProgressFromStatuses(childStatuses, ownStatus) ==
  IF Len(childStatuses) = 0 THEN progressFromStatus(ownStatus)
  ELSE calculateProgressFromStatuses(childStatuses)

\* the same without the trimming: the value goes on as it came
normalizeActualValueRaw(value) == value

normalizeActualValue(value) ==
  IF value = Undefined THEN Undefined
  ELSE IF value = Null THEN Null
  ELSE LET trimmed == Trim(value) IN IF trimmed = Empty THEN Null ELSE trimmed

\* ------------------------------------------------------------------ state
\* projects: the projects table, the set of project ids
\* phases, works, tasks, todos: the tables, id -> row
\* nextId: the number of ids nanoid has produced
\* resp: the response to the last request
\* call: the last direct call of a pure domain function, with its result
\* ui: the state of the web client, its React state hooks
\* net: the requests in flight between the client and the server
VARIABLES projects, phases, works, tasks, todos, nextId, resp, call, ui, net

store == <<projects, phases, works, tasks, todos, nextId>>
client == <<ui, net>>
vars == <<projects, phases, works, tasks, todos, nextId, resp, call, ui, net>>

EmptyTable == [id \in {} |-> id]

Insert(table, id, row) == [k \in DOMAIN table \cup {id} |-> IF k = id THEN row ELSE table[k]]
Remove(table, ids) == [k \in DOMAIN table \ ids |-> table[k]]

Reply(status) == [status |-> status, kind |-> "none"]
NoCall == [fn |-> "none"]
\* no browser is open and no request is in flight
NoUi == [view |-> "none"]
NoRequests == {}

Init ==
  /\ projects = {}
  /\ phases = EmptyTable
  /\ works = EmptyTable
  /\ tasks = EmptyTable
  /\ todos = EmptyTable
  /\ nextId = 0
  /\ resp = Reply(0)
  /\ call = NoCall
  /\ ui = NoUi
  /\ net = NoRequests

\* ------------------------------------------------------------------ hierarchyRepository
\* SELECT COALESCE(MAX(orderIndex), -1) + 1 FROM table WHERE column = value
getNextOrder(table, column, value) ==
  LET scope == {k \in DOMAIN table : table[k][column] = value}
  IN  IF scope = {} THEN 0
      ELSE 1 + CHOOSE m \in {table[k].orderIndex : k \in scope} :
                 \A k \in scope : table[k].orderIndex <= m

\* row as read by SELECT *: the stored columns plus the primary key
Row(table, id) == [id |-> id] @@ table[id]

\* the repository's own normalizeActualValue (hierarchyRepository.ts): value ?? undefined
normalizeActualValueRepo(value) == Coalesce(value, Undefined)

withDerivedStatus(item) ==
  LET actualStart == normalizeActualValueRepo(item.actualStart)
      actualEnd == normalizeActualValueRepo(item.actualEnd)
  IN  [item EXCEPT !.actualStart = actualStart,
                   !.actualEnd = actualEnd,
                   !.status = deriveStatusFromActual(actualStart, actualEnd)]

\* Array.prototype.sort((a, b) => a.orderIndex - b.orderIndex): a stable sort
RECURSIVE InsertByOrder(_, _)
InsertByOrder(sorted, item) ==
  IF sorted = <<>> THEN <<item>>
  ELSE IF sorted[Len(sorted)].orderIndex <= item.orderIndex THEN Append(sorted, item)
  ELSE Append(InsertByOrder(SubSeq(sorted, 1, Len(sorted) - 1), item), sorted[Len(sorted)])

RECURSIVE SortByOrderIndex(_)
SortByOrderIndex(items) ==
  IF items = <<>> THEN <<>>
  ELSE InsertByOrder(SortByOrderIndex(SubSeq(items, 1, Len(items) - 1)), items[Len(items)])

\* the ids of a set in ascending order (rows of equal orderIndex come back in
\* insertion order; ids are handed out in insertion order)
RECURSIVE IdSeq(_)
IdSeq(ids) ==
  IF ids = {} THEN <<>>
  ELSE LET least == CHOOSE k \in ids : \A j \in ids : k <= j
       IN  <<least>> \o IdSeq(ids \ {least})

\* the same with rows of equal orderIndex in no fixed order: scanned backwards
\* when the last answer was a hierarchy
SelectByProjectAnyTieOrder(table, projectId) ==
  LET ids == IdSeq({k \in DOMAIN table : table[k].projectId = projectId})
      n == Len(ids)
      scan == IF resp.kind = "hierarchy" THEN [i \in 1..n |-> ids[n + 1 - i]] ELSE ids
  IN  SortByOrderIndex([i \in 1..n |-> Row(table, scan[i])])

\* SELECT * FROM table WHERE projectId = ? ORDER BY orderIndex ASC
SelectByProject(table, projectId) ==
  LET ids == IdSeq({k \in DOMAIN table : table[k].projectId = projectId})
  IN  SortByOrderIndex([i \in 1..Len(ids) |-> Row(table, ids[i])])

MapDerived(rows) == [i \in 1..Len(rows) |-> withDerivedStatus(rows[i])]

\* rows.map((row) => ({ ...row, todayFlag: Boolean(row.todayFlag) }))
MapTodayFlag(rows) == [i \in 1..Len(rows) |-> [rows[i] EXCEPT !.todayFlag = IF @ = Flag0 THEN False ELSE True]]

\* the four SELECTs of listHierarchy over given tables
listHierarchyIn(db, projectId) ==
  [phases |-> MapDerived(SelectByProject(db.phases, projectId)),
   works |-> MapDerived(SelectByProject(db.works, projectId)),
   tasks |-> MapDerived(SelectByProject(db.tasks, projectId)),
   todos |-> MapTodayFlag(SelectByProject(db.todos, projectId))]

listHierarchy(projectId) ==
  listHierarchyIn([phases |-> phases, works |-> works, tasks |-> tasks, todos |-> todos],
                  projectId)

\* only id, parent and the status derived from the actual dates are selected
listPlanningStatuses(projectId) ==
  LET statusOf(row) ==
        deriveStatusFromActual(normalizeActualValueRepo(row.actualStart),
                               normalizeActualValueRepo(row.actualEnd))
      ps == SelectByProject(phases, projectId)
      ws == SelectByProject(works, projectId)
  IN  [phases |-> [i \in 1..Len(ps) |-> [id |-> ps[i].id, status |-> statusOf(ps[i])]],
       works |-> [i \in 1..Len(ws) |->
                    [id |-> ws[i].id, phaseId |-> ws[i].phaseId, status |-> statusOf(ws[i])]]]

findRow(table, id) == IF id \in DOMAIN table THEN withDerivedStatus(Row(table, id)) ELSE Undefined

\* Object.entries(patch).filter(([_, value]) => value !== undefined): a date,
\* text or flag left out is a key holding Undefined, a parent reference left
\* out is a key the patch does not have
ReferenceFields == {"phaseId", "workId", "taskId"}
Supplied(patch, f) == f \in DOMAIN patch /\ (f \in ReferenceFields \/ patch[f] /= Undefined)

\* the same writing every column of the patch, NULL for one left out
updateEntityOverwrite(table, id, patch) ==
  IF id \notin DOMAIN table THEN table
  ELSE [table EXCEPT ![id] =
          [f \in DOMAIN @ |-> IF f \notin DOMAIN patch THEN @[f]
                              ELSE IF patch[f] = Undefined THEN Null ELSE patch[f]]]

\* UPDATE table SET (every supplied column) WHERE id = @id
updateEntity(table, id, patch) ==
  IF id \notin DOMAIN table THEN table
  ELSE [table EXCEPT ![id] =
          [f \in DOMAIN @ |-> IF Supplied(patch, f) THEN patch[f] ELSE @[f]]]

\* ids.forEach((id, idx) => update.run({ id, orderIndex: idx })), from index idx on;
\* an UPDATE whose id matches no row of the table writes nothing
RECURSIVE reorderFrom(_, _, _)
reorderFrom(table, ids, idx) ==
  IF ids = <<>> THEN table
  ELSE LET id == Head(ids)
           written == IF id \in DOMAIN table
                      THEN [table EXCEPT ![id].orderIndex = idx] ELSE table
       IN  reorderFrom(written, Tail(ids), idx + 1)

reorderTable(table, ids) == reorderFrom(table, ids, 0)

\* the same with every write kept as it is made
transactionNone(before, after, completed) == after

\* db.transaction(fn)(): the writes of fn when it returns, none of them when
\* it is interrupted
transaction(before, after, completed) == IF completed THEN after ELSE before

\* ------------------------------------------------------------------ projectService
createProject ==
  /\ nextId < MaxIds
  /\ nextId' = nextId + 1
  /\ projects' = projects \cup {nextId + 1}
  /\ resp' = Reply(201)
  /\ UNCHANGED <<phases, works, tasks, todos>>

createPhase(payload) ==
  IF payload.projectId \notin projects
  THEN /\ resp' = Reply(404)
       /\ UNCHANGED store
  ELSE LET actualStart == normalizeActualValue(payload.actualStart)
           actualEnd == normalizeActualValue(payload.actualEnd)
           row == [projectId |-> payload.projectId,
                   actualStart |-> Coalesce(actualStart, Null),
                   actualEnd |-> Coalesce(actualEnd, Null),
                   status |-> deriveStatusFromActual(actualStart, actualEnd),
                   orderIndex |-> getNextOrder(phases, "projectId", payload.projectId)]
       IN  /\ nextId < MaxIds
           /\ nextId' = nextId + 1
           /\ phases' = Insert(phases, nextId + 1, row)
           /\ resp' = Reply(201)
           /\ UNCHANGED <<projects, works, tasks, todos>>

createWork(payload) ==
  IF payload.projectId \notin projects
  THEN /\ resp' = Reply(404)
       /\ UNCHANGED store
  ELSE IF payload.phaseId \notin DOMAIN phases
  THEN \* FOREIGN KEY(phaseId) REFERENCES phases(id): the INSERT throws
       /\ resp' = Reply(500)
       /\ UNCHANGED store
  ELSE LET actualStart == normalizeActualValue(payload.actualStart)
           actualEnd == normalizeActualValue(payload.actualEnd)
           row == [projectId |-> payload.projectId,
                   phaseId |-> payload.phaseId,
                   actualStart |-> Coalesce(actualStart, Null),
                   actualEnd |-> Coalesce(actualEnd, Null),
                   status |-> deriveStatusFromActual(actualStart, actualEnd),
                   orderIndex |-> getNextOrder(works, "phaseId", payload.phaseId)]
       IN  /\ nextId < MaxIds
           /\ nextId' = nextId + 1
           /\ works' = Insert(works, nextId + 1, row)
           /\ resp' = Reply(201)
           /\ UNCHANGED <<projects, phases, tasks, todos>>

createTask(payload) ==
  IF payload.projectId \notin projects
  THEN /\ resp' = Reply(404)
       /\ UNCHANGED store
  ELSE IF payload.workId \notin DOMAIN works
  THEN \* FOREIGN KEY(workId) REFERENCES works(id): the INSERT throws
       /\ resp' = Reply(500)
       /\ UNCHANGED store
  ELSE LET actualStart == normalizeActualValue(payload.actualStart)
           actualEnd == normalizeActualValue(payload.actualEnd)
           row == [projectId |-> payload.projectId,
                   workId |-> payload.workId,
                   actualStart |-> Coalesce(actualStart, Null),
                   actualEnd |-> Coalesce(actualEnd, Null),
                   status |-> deriveStatusFromActual(actualStart, actualEnd),
                   orderIndex |-> getNextOrder(tasks, "workId", payload.workId)]
       IN  /\ nextId < MaxIds
           /\ nextId' = nextId + 1
           /\ tasks' = Insert(tasks, nextId + 1, row)
           /\ resp' = Reply(201)
           /\ UNCHANGED <<projects, phases, works, todos>>

createTodo(payload) ==
  IF payload.projectId \notin projects
  THEN /\ resp' = Reply(404)
       /\ UNCHANGED store
  ELSE IF payload.taskId \notin DOMAIN tasks
  THEN \* FOREIGN KEY(taskId) REFERENCES tasks(id): the INSERT throws
       /\ resp' = Reply(500)
       /\ UNCHANGED store
  ELSE LET row == [projectId |-> payload.projectId,
                   taskId |-> payload.taskId,
                   title |-> payload.title,
                   status |-> payload.status,
                   assigneeId |-> payload.assigneeId,
                   dueDate |-> Coalesce(payload.dueDate, Null),
                   todayFlag |-> IF Coalesce(payload.todayFlag, False) = True THEN Flag1 ELSE Flag0,
                   orderIndex |-> getNextOrder(todos, "taskId", payload.taskId)]
       IN  /\ nextId < MaxIds
           /\ nextId' = nextId + 1
           /\ todos' = Insert(todos, nextId + 1, row)
           /\ resp' = Reply(201)
           /\ UNCHANGED <<projects, phases, works, tasks>>

\* the same looking at the patch only, the stored dates left aside
deriveStatusFromPatchOnly(current, patch) ==
  LET nextActualStart == normalizeActualValue(patch.actualStart)
      nextActualEnd == normalizeActualValue(patch.actualEnd)
  IN  [nextActualStart |-> nextActualStart,
       nextActualEnd |-> nextActualEnd,
       status |-> deriveStatusFromActual(nextActualStart, nextActualEnd)]

deriveStatusFromPatch(current, patch) ==
  LET nextActualStart ==
        normalizeActualValue(IF patch.actualStart /= Undefined
                             THEN patch.actualStart ELSE current.actualStart)
      nextActualEnd ==
        normalizeActualValue(IF patch.actualEnd /= Undefined
                             THEN patch.actualEnd ELSE current.actualEnd)
  IN  [nextActualStart |-> nextActualStart,
       nextActualEnd |-> nextActualEnd,
       status |-> deriveStatusFromActual(nextActualStart, nextActualEnd)]

\* the same without the re-derivation: the patch goes to the repository as it came
updatePlanningPassThrough(table, id, patch) == updateEntity(table, id, patch)

\* the body shared by updatePhase, updateWork and updateTask: the table after
\* the call, for an id that findPhase / findWork / findTask resolves
updatePlanning(table, id, patch) ==
  LET current == findRow(table, id)
      normalizedPatch == [patch EXCEPT !.actualStart = normalizeActualValue(patch.actualStart),
                                       !.actualEnd = normalizeActualValue(patch.actualEnd)]
      status == deriveStatusFromPatch(current, normalizedPatch).status
  IN  updateEntity(table, id, normalizedPatch @@ [status |-> status])

updatePhase(id, patch) ==
  IF id \notin DOMAIN phases
  THEN /\ resp' = Reply(404)
       /\ UNCHANGED store
  ELSE /\ phases' = updatePlanning(phases, id, patch)
       /\ resp' = Reply(200)
       /\ UNCHANGED <<projects, works, tasks, todos, nextId>>

updateWork(id, patch) ==
  IF id \notin DOMAIN works
  THEN /\ resp' = Reply(404)
       /\ UNCHANGED store
  ELSE /\ works' = updatePlanning(works, id, patch)
       /\ resp' = Reply(200)
       /\ UNCHANGED <<projects, phases, tasks, todos, nextId>>

updateTask(id, patch) ==
  IF id \notin DOMAIN tasks
  THEN /\ resp' = Reply(404)
       /\ UNCHANGED store
  ELSE /\ tasks' = updatePlanning(tasks, id, patch)
       /\ resp' = Reply(200)
       /\ UNCHANGED <<projects, phases, works, todos, nextId>>

\* hierarchyRepository.updateTodo: a supplied todayFlag is stored as 1 or 0
todayFlagToInt(patch) ==
  IF "todayFlag" \in DOMAIN patch /\ patch.todayFlag /= Undefined
  THEN [patch EXCEPT !.todayFlag = IF @ = True THEN Flag1 ELSE Flag0]
  ELSE patch

updateTodo(id, patch) ==
  /\ todos' = updateEntity(todos, id, todayFlagToInt(patch))
  /\ resp' = Reply(200)
  /\ UNCHANGED <<projects, phases, works, tasks, nextId>>

\* the same with no cascade from works to tasks
CascadeTasksNone(goneWorks) == {}

\* reorder(table, ids), interrupted after the first `writes` of its updates when
\* writes < Len(ids); the response records the request
reorder(type, ids, writes) ==
  LET completed == writes = Len(ids)
      Written(name, table) ==
        IF type = name
        THEN transaction(table, reorderTable(table, SubSeq(ids, 1, writes)), completed)
        ELSE table
  IN  /\ phases' = Written("phases", phases)
      /\ works' = Written("works", works)
      /\ tasks' = Written("tasks", tasks)
      /\ todos' = Written("todos", todos)
      /\ resp' = [status |-> IF completed THEN 200 ELSE 500, kind |-> "reorder",
                  type |-> type, ids |-> ids]
      /\ UNCHANGED <<projects, nextId>>

\* ON DELETE CASCADE, top-down
CascadeWorks(gonePhases) == {k \in DOMAIN works : works[k].phaseId \in gonePhases}
CascadeTasks(goneWorks) == {k \in DOMAIN tasks : tasks[k].workId \in goneWorks}
CascadeTodos(goneTasks) == {k \in DOMAIN todos : todos[k].taskId \in goneTasks}

deleteProject(projectId) ==
  IF projectId \notin projects
  THEN /\ resp' = Reply(404)
       /\ UNCHANGED store
  ELSE LET OfProject(table) == {k \in DOMAIN table : table[k].projectId = projectId}
           gonePhases == OfProject(phases)
           goneWorks == OfProject(works) \cup CascadeWorks(gonePhases)
           goneTasks == OfProject(tasks) \cup CascadeTasks(goneWorks)
           goneTodos == OfProject(todos) \cup CascadeTodos(goneTasks)
       IN  /\ projects' = projects \ {projectId}
           /\ phases' = Remove(phases, gonePhases)
           /\ works' = Remove(works, goneWorks)
           /\ tasks' = Remove(tasks, goneTasks)
           /\ todos' = Remove(todos, goneTodos)
           /\ resp' = Reply(204)
           /\ UNCHANGED nextId

deletePhase(id) ==
  IF id \notin DOMAIN phases
  THEN /\ resp' = Reply(404)
       /\ UNCHANGED store
  ELSE LET goneWorks == CascadeWorks({id})
           goneTasks == CascadeTasks(goneWorks)
       IN  /\ phases' = Remove(phases, {id})
           /\ works' = Remove(works, goneWorks)
           /\ tasks' = Remove(tasks, goneTasks)
           /\ todos' = Remove(todos, CascadeTodos(goneTasks))
           /\ resp' = Reply(204)
           /\ UNCHANGED <<projects, nextId>>

deleteWork(id) ==
  IF id \notin DOMAIN works
  THEN /\ resp' = Reply(404)
       /\ UNCHANGED store
  ELSE LET goneTasks == CascadeTasks({id})
       IN  /\ works' = Remove(works, {id})
           /\ tasks' = Remove(tasks, goneTasks)
           /\ todos' = Remove(todos, CascadeTodos(goneTasks))
           /\ resp' = Reply(204)
           /\ UNCHANGED <<projects, phases, nextId>>

deleteTask(id) ==
  IF id \notin DOMAIN tasks
  THEN /\ resp' = Reply(404)
       /\ UNCHANGED store
  ELSE /\ tasks' = Remove(tasks, {id})
       /\ todos' = Remove(todos, CascadeTodos({id}))
       /\ resp' = Reply(204)
       /\ UNCHANGED <<projects, phases, works, nextId>>

deleteTodo(id) ==
  IF id \notin DOMAIN todos
  THEN /\ resp' = Reply(404)
       /\ UNCHANGED store
  ELSE /\ todos' = Remove(todos, {id})
       /\ resp' = Reply(204)
       /\ UNCHANGED <<projects, phases, works, tasks, nextId>>

\* ------------------------------------------------------------------ reads
Filter(items, field, value) ==
  LET Test(item) == item[field] = value IN SelectSeq(items, Test)

Statuses(items) == [i \in 1..Len(items) |-> items[i].status]

\* the tree getHierarchy builds from the rows h of listHierarchy
TreeOf(h, projectId) ==
  LET taskNode(task) ==
        LET childTodos == Filter(h.todos, "taskId", task.id)
            progress == deriveProgressFromStatuses(Statuses(childTodos), task.status)
        IN  task @@ [todos |-> childTodos, progress |-> progress]
      taskNodes == [i \in 1..Len(h.tasks) |-> taskNode(h.tasks[i])]
      workNode(work) ==
        LET relatedTasks == SortByOrderIndex(Filter(taskNodes, "workId", work.id))
            progress == deriveProgressFromStatuses(Statuses(relatedTasks), work.status)
        IN  work @@ [tasks |-> relatedTasks, progress |-> progress]
      workNodes == [i \in 1..Len(h.works) |-> workNode(h.works[i])]
      phaseNode(phase) ==
        LET relatedWorks == SortByOrderIndex(Filter(workNodes, "phaseId", phase.id))
            progress == deriveProgressFromStatuses(Statuses(relatedWorks), phase.status)
        IN  phase @@ [progress |-> progress, works |-> relatedWorks]
  IN  [project |-> projectId,
       phases |-> [i \in 1..Len(h.phases) |-> phaseNode(h.phases[i])]]

\* the tree getHierarchy builds for an existing project
HierarchyTree(projectId) == TreeOf(listHierarchy(projectId), projectId)

\* the same finding every project
ensureProjectAny(projectId) == TRUE

\* TRUE when the project is found, FALSE when NotFoundError is thrown
ensureProject(projectId) == projectId \in projects

getHierarchy(projectId) ==
  /\ resp' = IF ~ensureProject(projectId) THEN Reply(404)
             ELSE [status |-> 200, kind |-> "hierarchy", body |-> HierarchyTree(projectId)]
  /\ UNCHANGED store

\* the same, taking every phase's own status and never its works
calculateProjectProgressOwnStatus(projectId) ==
  LET l == listPlanningStatuses(projectId)
  IN  combineProgress([i \in 1..Len(l.phases) |-> progressFromStatus(l.phases[i].status)])

calculateProjectProgress(projectId) ==
  LET l == listPlanningStatuses(projectId)
      phaseProgress(phase) ==
        deriveProgressFromStatuses(Statuses(Filter(l.works, "phaseId", phase.id)), phase.status)
  IN  combineProgress([i \in 1..Len(l.phases) |-> phaseProgress(l.phases[i])])

listProjects ==
  /\ resp' = [status |-> 200, kind |-> "projects",
              body |-> [p \in projects |-> [progress |-> calculateProjectProgress(p)]]]
  /\ UNCHANGED store

\* SELECT * FROM todos WHERE projectId = @projectId [AND assigneeId = @assigneeId]
\* [AND status = @status] AND dueDate = date('now') ORDER BY dueDate ASC, orderIndex ASC
listTodayTodosRows(projectId, filter) ==
  LET ids == {k \in DOMAIN todos :
                /\ todos[k].projectId = projectId
                /\ Truthy(filter.assigneeId) => todos[k].assigneeId = filter.assigneeId
                /\ Truthy(filter.status) => todos[k].status = filter.status
                /\ todos[k].dueDate = Today}
      rows == IdSeq(ids)
  IN  MapTodayFlag(SortByOrderIndex([i \in 1..Len(rows) |-> Row(todos, rows[i])]))

\* the response records the query it answers
listTodayTodos(projectId, filter) ==
  /\ resp' = IF ~ensureProject(projectId) THEN Reply(404)
             ELSE [status |-> 200, kind |-> "today", projectId |-> projectId,
                   filter |-> filter, body |-> listTodayTodosRows(projectId, filter)]
  /\ UNCHANGED store

\* ------------------------------------------------------------------ requests
\* A request that fails before its fields are read (unknown project, unknown
\* parent, unknown id) is drawn once, with the first value of every other field.
Missing(known) == IF Ids \ known = {} THEN {} ELSE {CHOOSE k \in Ids \ known : TRUE}
Plain == [actualStart : {Undefined}, actualEnd : {Undefined}]
PlanningFields == [actualStart : PayloadDates, actualEnd : PayloadDates]
With(ids, fields) == {ids @@ f : f \in fields}

PlanningPayloads ==
  UNION {With([projectId |-> p], PlanningFields) : p \in projects}
  \cup UNION {With([projectId |-> p], Plain) : p \in Missing(projects)}
WorkPayloads ==
  UNION {With([projectId |-> p, phaseId |-> k], PlanningFields) :
           p \in projects, k \in DOMAIN phases}
  \cup UNION {With([projectId |-> p, phaseId |-> k], Plain) :
                p \in projects, k \in Missing(DOMAIN phases)}
  \cup UNION {With([projectId |-> p, phaseId |-> k], Plain) :
                p \in Missing(projects), k \in DOMAIN phases \cup Missing(DOMAIN phases)}
TaskPayloads ==
  UNION {With([projectId |-> p, workId |-> k], PlanningFields) :
           p \in projects, k \in DOMAIN works}
  \cup UNION {With([projectId |-> p, workId |-> k], Plain) :
                p \in projects, k \in Missing(DOMAIN works)}
  \cup UNION {With([projectId |-> p, workId |-> k], Plain) :
                p \in Missing(projects), k \in DOMAIN works \cup Missing(DOMAIN works)}
\* every Todo is assigned to the demo user, with no due date and no today flag
TodoFields == [title : Titles, status : TodoStatus, assigneeId : {DemoUser},
               dueDate : {Undefined}, todayFlag : {Undefined}]
PlainTodo == [title : {"a"}, status : {"NOT_STARTED"}, assigneeId : {DemoUser},
              dueDate : {Undefined}, todayFlag : {Undefined}]
TodoPayloads ==
  UNION {With([projectId |-> p, taskId |-> k], TodoFields) :
           p \in projects, k \in DOMAIN tasks}
  \cup UNION {With([projectId |-> p, taskId |-> k], PlainTodo) :
                p \in projects, k \in Missing(DOMAIN tasks)}
  \cup UNION {With([projectId |-> p, taskId |-> k], PlainTodo) :
                p \in Missing(projects), k \in DOMAIN tasks \cup Missing(DOMAIN tasks)}
\* planningSchema.partial() / todoPatchSchema: every field optional
PlanningPatches == [actualStart : PayloadDates, actualEnd : PayloadDates]
TodoPatches == [title : Titles \cup {Undefined}, status : TodoStatus \cup {Undefined}]
NoPatch == [actualStart : {Undefined}, actualEnd : {Undefined}]
NoTodoPatch == [title : {Undefined}, status : {Undefined}]
Targets(known) == known \cup Missing(known)

CreateProject == createProject /\ UNCHANGED <<call, client>>
CreatePhase == (\E payload \in PlanningPayloads : createPhase(payload)) /\ UNCHANGED <<call, client>>
CreateWork == (\E payload \in WorkPayloads : createWork(payload)) /\ UNCHANGED <<call, client>>
CreateTask == (\E payload \in TaskPayloads : createTask(payload)) /\ UNCHANGED <<call, client>>
CreateTodo == (\E payload \in TodoPayloads : createTodo(payload)) /\ UNCHANGED <<call, client>>
UpdatePhase ==
  /\ \E id \in Targets(DOMAIN phases) :
       \E patch \in IF id \in DOMAIN phases THEN PlanningPatches ELSE NoPatch :
         updatePhase(id, patch)
  /\ UNCHANGED <<call, client>>
UpdateWork ==
  /\ \E id \in Targets(DOMAIN works) :
       \E patch \in IF id \in DOMAIN works THEN PlanningPatches ELSE NoPatch :
         updateWork(id, patch)
  /\ UNCHANGED <<call, client>>
UpdateTask ==
  /\ \E id \in Targets(DOMAIN tasks) :
       \E patch \in IF id \in DOMAIN tasks THEN PlanningPatches ELSE NoPatch :
         updateTask(id, patch)
  /\ UNCHANGED <<call, client>>
UpdateTodo ==
  /\ \E id \in Targets(DOMAIN todos) :
       \E patch \in IF id \in DOMAIN todos THEN TodoPatches ELSE NoTodoPatch :
         updateTodo(id, patch)
  /\ UNCHANGED <<call, client>>
DeleteProject == (\E id \in Targets(projects) : deleteProject(id)) /\ UNCHANGED <<call, client>>
DeletePhase == (\E id \in Targets(DOMAIN phases) : deletePhase(id)) /\ UNCHANGED <<call, client>>
DeleteWork == (\E id \in Targets(DOMAIN works) : deleteWork(id)) /\ UNCHANGED <<call, client>>
DeleteTask == (\E id \in Targets(DOMAIN tasks) : deleteTask(id)) /\ UNCHANGED <<call, client>>
DeleteTodo == (\E id \in Targets(DOMAIN todos) : deleteTodo(id)) /\ UNCHANGED <<call, client>>
GetHierarchy == (\E id \in Targets(projects) : getHierarchy(id)) /\ UNCHANGED <<call, client>>
ListProjects == listProjects /\ UNCHANGED <<call, client>>

Next ==
  \/ CreateProject
  \/ CreatePhase
  \/ CreateWork
  \/ CreateTask
  \/ CreateTodo
  \/ UpdatePhase
  \/ UpdateWork
  \/ UpdateTask
  \/ UpdateTodo
  \/ DeleteProject
  \/ DeletePhase
  \/ DeleteWork
  \/ DeleteTask
  \/ DeleteTodo
  \/ GetHierarchy
  \/ ListProjects

\* the project service over a store that starts empty
Spec == Init /\ [][Next]_vars

\* ------------------------------------------------------------------ the pure domain functions, called directly
\* every value a caller can hand to deriveStatusFromActual
ActualValues == {Undefined, Null} \cup DateStrings
Percents == {0, 25, 50, 67, 100}

RECURSIVE SeqsUpTo(_, _)
SeqsUpTo(S, n) ==
  IF n = 0 THEN {<<>>}
  ELSE LET shorter == SeqsUpTo(S, n - 1)
       IN  shorter \cup {Append(q, x) : q \in shorter, x \in S}

CallDeriveStatus ==
  /\ \E actualStart \in ActualValues, actualEnd \in ActualValues :
       call' = [fn |-> "deriveStatusFromActual",
                actualStart |-> actualStart, actualEnd |-> actualEnd,
                result |-> deriveStatusFromActual(actualStart, actualEnd)]
  /\ UNCHANGED <<store, resp, client>>

CallCalculateProgress ==
  /\ \E statuses \in SeqsUpTo(TodoStatus, MaxLen) :
       call' = [fn |-> "calculateProgressFromStatuses", statuses |-> statuses,
                result |-> calculateProgressFromStatuses(statuses)]
  /\ UNCHANGED <<store, resp, client>>

CallProgressFromStatus ==
  /\ \E status \in TodoStatus :
       call' = [fn |-> "progressFromStatus", status |-> status,
                result |-> progressFromStatus(status)]
  /\ UNCHANGED <<store, resp, client>>

CallCombineProgress ==
  /\ \E values \in SeqsUpTo(Percents, MaxLen) :
       call' = [fn |-> "combineProgress", values |-> values,
                result |-> combineProgress(values)]
  /\ UNCHANGED <<store, resp, client>>

NextFn ==
  \/ CallDeriveStatus
  \/ CallCalculateProgress
  \/ CallProgressFromStatus
  \/ CallCombineProgress

SpecFn == Init /\ [][NextFn]_vars

\* ------------------------------------------------------------------ seed
SeedPhaseEnd == "2025-02-14"
SeedWorkEnd == "2025-02-07"

\* seedDemoData on an empty database, followed down its first branch: the
\* project, its first Phase (DONE), that Phase's first Work (DONE), that
\* Work's first Task (IN_PROGRESS) and the Task's three Todos; the second
\* Phase, Work and Task of the seed are left out
InitSeed ==
  /\ projects = {1}
  /\ phases = 2 :> [projectId |-> 1, actualStart |-> Date1, actualEnd |-> SeedPhaseEnd,
                    status |-> "DONE", orderIndex |-> 0]
  /\ works = 3 :> [projectId |-> 1, phaseId |-> 2, actualStart |-> Date1,
                   actualEnd |-> SeedWorkEnd, status |-> "DONE", orderIndex |-> 0]
  /\ tasks = 4 :> [projectId |-> 1, workId |-> 3, actualStart |-> Date1,
                   actualEnd |-> Null, status |-> "IN_PROGRESS", orderIndex |-> 0]
  /\ todos = (5 :> [projectId |-> 1, taskId |-> 4, title |-> "a", status |-> "DONE",
                    assigneeId |-> DemoUser, dueDate |-> Date1, todayFlag |-> Flag1,
                    orderIndex |-> 0])
             @@ (6 :> [projectId |-> 1, taskId |-> 4, title |-> "a", status |-> "IN_PROGRESS",
                       assigneeId |-> DemoUser, dueDate |-> SeedWorkEnd, todayFlag |-> Flag0,
                       orderIndex |-> 1])
             @@ (7 :> [projectId |-> 1, taskId |-> 4, title |-> "a", status |-> "NOT_STARTED",
                       assigneeId |-> DemoUser, dueDate |-> SeedWorkEnd, todayFlag |-> Flag0,
                       orderIndex |-> 2])
  /\ nextId = 7
  /\ resp = Reply(0)
  /\ call = NoCall
  /\ ui = NoUi
  /\ net = NoRequests

\* the requests made of the seeded store: a date is left out, cleared or set;
\* a Todo is renamed, completed, both or neither
SeedDates == {Undefined, Empty, Date1}
SeedPatches == [actualStart : SeedDates, actualEnd : SeedDates]
SeedTodoPatches == [title : {Undefined, "b"}, status : {Undefined, "DONE"}]

SeedUpdatePhase ==
  /\ \E id \in Targets(DOMAIN phases) :
       \E patch \in IF id \in DOMAIN phases THEN SeedPatches ELSE NoPatch :
         updatePhase(id, patch)
  /\ UNCHANGED <<call, client>>
SeedUpdateWork ==
  /\ \E id \in Targets(DOMAIN works) :
       \E patch \in IF id \in DOMAIN works THEN SeedPatches ELSE NoPatch :
         updateWork(id, patch)
  /\ UNCHANGED <<call, client>>
SeedUpdateTask ==
  /\ \E id \in Targets(DOMAIN tasks) :
       \E patch \in IF id \in DOMAIN tasks THEN SeedPatches ELSE NoPatch :
         updateTask(id, patch)
  /\ UNCHANGED <<call, client>>
SeedUpdateTodo ==
  /\ \E id \in Targets(DOMAIN todos) :
       \E patch \in IF id \in DOMAIN todos THEN SeedTodoPatches ELSE NoTodoPatch :
         updateTodo(id, patch)
  /\ UNCHANGED <<call, client>>

NextSeed ==
  \/ SeedUpdatePhase
  \/ SeedUpdateWork
  \/ SeedUpdateTask
  \/ SeedUpdateTodo
  \/ DeleteProject
  \/ DeletePhase
  \/ DeleteWork
  \/ DeleteTask
  \/ DeleteTodo
  \/ GetHierarchy
  \/ ListProjects

\* the project service over the seeded store
SpecSeed == InitSeed /\ [][NextSeed]_vars

\* ------------------------------------------------------------------ reorder
\* seedDemoData on an empty database with every Task deleted: the project, its
\* two Phases and the two Works of each
InitSeedOrder ==
  /\ projects = {1}
  /\ phases = (2 :> [projectId |-> 1, actualStart |-> Date1, actualEnd |-> SeedPhaseEnd,
                     status |-> "DONE", orderIndex |-> 0])
              @@ (3 :> [projectId |-> 1, actualStart |-> "2025-02-15", actualEnd |-> Null,
                        status |-> "IN_PROGRESS", orderIndex |-> 1])
  /\ works = (4 :> [projectId |-> 1, phaseId |-> 2, actualStart |-> Date1,
                    actualEnd |-> SeedWorkEnd, status |-> "DONE", orderIndex |-> 0])
             @@ (5 :> [projectId |-> 1, phaseId |-> 2, actualStart |-> "2025-02-08",
                       actualEnd |-> SeedPhaseEnd, status |-> "DONE", orderIndex |-> 1])
             @@ (6 :> [projectId |-> 1, phaseId |-> 3, actualStart |-> "2025-02-15",
                       actualEnd |-> Null, status |-> "IN_PROGRESS", orderIndex |-> 0])
             @@ (7 :> [projectId |-> 1, phaseId |-> 3, actualStart |-> Null,
                       actualEnd |-> Null, status |-> "NOT_STARTED", orderIndex |-> 1])
  /\ tasks = EmptyTable
  /\ todos = EmptyTable
  /\ nextId = 7
  /\ resp = Reply(0)
  /\ call = NoCall
  /\ ui = NoUi
  /\ net = NoRequests

\* the lists of distinct ids of a set, up to n long
RECURSIVE ListsOf(_, _)
ListsOf(ids, n) ==
  IF n = 0 THEN {<<>>}
  ELSE LET shorter == ListsOf(ids, n - 1)
       IN  shorter \cup {Append(q, x) : q \in shorter, x \in ids}
DistinctListsOf(ids, n) ==
  {q \in ListsOf(ids, n) : \A i, j \in DOMAIN q : q[i] = q[j] => i = j}

ReorderTypes == {"phases", "works", "tasks", "todos"}
TableOf(type) ==
  CASE type = "phases" -> phases
    [] type = "works" -> works
    [] type = "tasks" -> tasks
    [] type = "todos" -> todos

Reorder ==
  /\ \E type \in ReorderTypes :
       \E ids \in DistinctListsOf(DOMAIN TableOf(type), MaxReorder) :
         \E writes \in 0..Len(ids) : reorder(type, ids, writes)
  /\ UNCHANGED <<call, client>>

NextOrder ==
  \/ Reorder
  \/ DeletePhase
  \/ DeleteWork
  \/ GetHierarchy

\* reorder over the seeded Phases and Works
SpecOrder == InitSeedOrder /\ [][NextOrder]_vars

\* ------------------------------------------------------------------ today's todos
\* todayFilterSchema: both fields optional
TodayFilters == [assigneeId : {Undefined, DemoUser, "nobody"}, status : TodoStatus \cup {Undefined}]
\* a Todo is given a due date, flagged or unflagged for today, completed
TodayTodoPatches ==
  [dueDate : {Undefined, Today, Tomorrow}, todayFlag : {Undefined, True, False},
   status : {Undefined, "DONE"}]
NoTodayTodoPatch == [dueDate : {Undefined}, todayFlag : {Undefined}, status : {Undefined}]

TodayUpdateTodo ==
  /\ \E id \in Targets(DOMAIN todos) :
       \E patch \in IF id \in DOMAIN todos THEN TodayTodoPatches ELSE NoTodayTodoPatch :
         updateTodo(id, patch)
  /\ UNCHANGED <<call, client>>
ListTodayTodos ==
  /\ \E id \in Targets(projects) : \E filter \in TodayFilters : listTodayTodos(id, filter)
  /\ UNCHANGED <<call, client>>

NextToday ==
  \/ TodayUpdateTodo
  \/ ListTodayTodos
  \/ GetHierarchy

\* the today view over the seeded store
SpecToday == InitSeed /\ [][NextToday]_vars

\* ------------------------------------------------------------------ typed updates
\* planningPatchSchema.parse(body): an object schema drops every key it does
\* not declare
parsePlanningPatch(body) ==
  [f \in {"actualStart", "actualEnd"} |-> IF f \in DOMAIN body THEN body[f] ELSE Undefined]

\* WorkUpdate = Partial<Omit<WorkPayload, 'projectId'>>: the planning fields and,
\* optionally, phaseId (here the id of a stored Phase, as the foreign key asks)
NoReference == [f \in {} |-> f]
WorkDates == [actualStart : {Undefined}, actualEnd : SeedDates]
WorkUpdates ==
  {dates @@ ref : dates \in WorkDates,
                  ref \in {NoReference} \cup {[phaseId |-> k] : k \in DOMAIN phases}}

\* projectService.updateWork called with a patch of its parameter type
ServiceUpdateWork ==
  /\ \E id \in DOMAIN works : \E patch \in WorkUpdates : updateWork(id, patch)
  /\ UNCHANGED <<call, client>>

\* PATCH /api/works/:id with any JSON object for a body
PatchWork ==
  /\ \E id \in Targets(DOMAIN works) :
       \E body \in IF id \in DOMAIN works THEN WorkUpdates ELSE NoPatch :
         updateWork(id, parsePlanningPatch(body))
  /\ UNCHANGED <<call, client>>

NextPatch ==
  \/ ServiceUpdateWork
  \/ PatchWork
  \/ GetHierarchy

\* the update operations over the seeded Phases and Works
SpecPatch == InitSeedOrder /\ [][NextPatch]_vars

\* ------------------------------------------------------------------ web: GanttChart
\* instants are counted in units of three hours since 1970-01-01T00:00Z
DAY_MS == 8
DAY_WIDTH == 40
\* null and NaN, for a number | null
NoTime == -1
\* the days a date field names here, as days since 1970-01-01
GanttDays ==
  ("2025-02-01" :> 20120) @@ ("2025-02-07" :> 20126) @@ ("2025-02-14" :> 20133)
  @@ ("2025-03-01" :> 20148) @@ ("2025-03-02" :> 20149)
\* a string Date.parse answers NaN for
Unparseable == "soon"

\* the same reading a string Date.parse cannot read as the current day
parseDateLenient(value) ==
  IF ~Truthy(value) THEN NoTime
  ELSE IF value \in DOMAIN GanttDays THEN GanttDays[value] * DAY_MS
  ELSE GanttDays[Today] * DAY_MS

\* Date.parse(value) for a date-only string is the UTC midnight of its day
parseDate(value) ==
  IF ~Truthy(value) THEN NoTime
  ELSE IF value \in DOMAIN GanttDays THEN GanttDays[value] * DAY_MS
  ELSE NoTime

\* Boolean(t) for a number | null: neither null, NaN nor 0
IsSet(t) == t \notin {NoTime, 0}
Max(a, b) == IF a >= b THEN a ELSE b
\* t ?? 0
OrZero(t) == IF t = NoTime THEN 0 ELSE t

\* showWorksByPhase[id] === false and its like: a toggle hides only when it
\* is stored as false
Shown(show, id) == ~(id \in DOMAIN show /\ show[id] = False)

RECURSIVE Flatten(_)
Flatten(seqs) == IF seqs = <<>> THEN <<>> ELSE Head(seqs) \o Flatten(Tail(seqs))

\* the row buildRows pushes for a Phase, Work or Task
GanttRow(node, level) ==
  LET plannedStart == parseDate(node.plannedStart)
      plannedEnd == parseDate(node.plannedEnd)
      actualStart == parseDate(node.actualStart)
      actualEnd == parseDate(node.actualEnd)
  IN  [id |-> node.id,
       plannedStart |-> plannedStart,
       plannedEnd |-> IF IsSet(plannedEnd) THEN Max(OrZero(plannedStart), plannedEnd) ELSE NoTime,
       actualStart |-> actualStart,
       actualEnd |-> IF IsSet(actualEnd) THEN Max(OrZero(actualStart), actualEnd) ELSE NoTime,
       status |-> deriveStatusFromActual(node.actualStart, node.actualEnd),
       level |-> level]

buildRows(tree, showWorksByPhase, showTasksByWork) ==
  LET taskRows(work) == [k \in DOMAIN work.tasks |-> GanttRow(work.tasks[k], 2)]
      workRows(work) ==
        <<GanttRow(work, 1)>>
          \o (IF Shown(showTasksByWork, work.id) THEN taskRows(work) ELSE <<>>)
      phaseRows(phase) ==
        <<GanttRow(phase, 0)>>
          \o (IF Shown(showWorksByPhase, phase.id)
              THEN Flatten([j \in DOMAIN phase.works |-> workRows(phase.works[j])])
              ELSE <<>>)
  IN  Flatten([i \in DOMAIN tree |-> phaseRows(tree[i])])

\* the same with a marker for every Todo of every visible Task, whatever the
\* Task's own toggle
todoMarkersOfVisibleTasks(tree, showWorksByPhase, showTasksByWork, showTodosByTask) ==
  LET marker(todo, task) ==
        LET due == IF Truthy(todo.dueDate) THEN parseDate(todo.dueDate) ELSE NoTime
        IN  IF IsSet(due)
            THEN <<[id |-> todo.id, due |-> due, status |-> todo.status, taskId |-> task.id]>>
            ELSE <<>>
      ofTask(task) == Flatten([l \in DOMAIN task.todos |-> marker(task.todos[l], task)])
      ofWork(work) ==
        IF Shown(showTasksByWork, work.id)
        THEN Flatten([k \in DOMAIN work.tasks |-> ofTask(work.tasks[k])]) ELSE <<>>
      ofPhase(phase) ==
        IF Shown(showWorksByPhase, phase.id)
        THEN Flatten([j \in DOMAIN phase.works |-> ofWork(phase.works[j])]) ELSE <<>>
  IN  Flatten([i \in DOMAIN tree |-> ofPhase(tree[i])])

todoMarkers(tree, showWorksByPhase, showTasksByWork, showTodosByTask) ==
  LET marker(todo, task) ==
        LET due == IF Truthy(todo.dueDate) THEN parseDate(todo.dueDate) ELSE NoTime
        IN  IF IsSet(due)
            THEN <<[id |-> todo.id, due |-> due, status |-> todo.status, taskId |-> task.id]>>
            ELSE <<>>
      ofTask(task) ==
        IF Shown(showTodosByTask, task.id)
        THEN Flatten([l \in DOMAIN task.todos |-> marker(task.todos[l], task)]) ELSE <<>>
      ofWork(work) ==
        IF Shown(showTasksByWork, work.id)
        THEN Flatten([k \in DOMAIN work.tasks |-> ofTask(work.tasks[k])]) ELSE <<>>
      ofPhase(phase) ==
        IF Shown(showWorksByPhase, phase.id)
        THEN Flatten([j \in DOMAIN phase.works |-> ofWork(phase.works[j])]) ELSE <<>>
  IN  Flatten([i \in DOMAIN tree |-> ofPhase(tree[i])])

\* new Date(t).setHours(0, 0, 0, 0) in a zone tz units ahead of UTC; NaN stays NaN
startOfDay(t, tz) == IF t = NoTime THEN NoTime ELSE t - ((t + tz) % DAY_MS)

Least(S) == CHOOSE t \in S : \A u \in S : t <= u
Greatest(S) == CHOOSE t \in S : \A u \in S : t >= u

\* the useMemo that scans rows and markers for minStart and maxEnd; a maximum
\* left at -Infinity ends as NaN
timelineBounds(rows, markers, now, tz) ==
  LET Rows == {rows[i] : i \in DOMAIN rows}
      Markers == {markers[i] : i \in DOMAIN markers}
      mins == {row.plannedStart : row \in {r \in Rows : IsSet(r.plannedStart)}}
              \cup {row.actualStart : row \in {r \in Rows : IsSet(r.actualStart)}}
              \cup {m.due : m \in Markers}
      maxs == {IF row.actualEnd = NoTime THEN now ELSE row.actualEnd :
                 row \in {r \in Rows : IsSet(r.actualStart)}}
              \cup {row.plannedEnd : row \in {r \in Rows : IsSet(r.plannedEnd)}}
              \cup {row.actualEnd : row \in {r \in Rows : IsSet(r.actualEnd)}}
              \cup {m.due : m \in Markers}
      min == IF mins = {} THEN now ELSE Least(mins)
      max == IF mins = {} THEN now + 7 * DAY_MS
             ELSE IF maxs = {} THEN NoTime ELSE Greatest(maxs)
      startTs == startOfDay(min - 3 * DAY_MS, tz)
      endTs == startOfDay(IF max = NoTime THEN NoTime ELSE max + 7 * DAY_MS, tz)
  IN  IF rows = <<>> THEN [minStart |-> now, maxEnd |-> now, totalDays |-> 1]
      ELSE [minStart |-> startTs,
            maxEnd |-> endTs,
            totalDays |-> IF endTs = NoTime THEN NoTime
                          ELSE (endTs - startTs + DAY_MS - 1) \div DAY_MS + 1]

\* ((instant - minStart) / DAY_MS) * DAY_WIDTH
Left(instant, minStart) == ((instant - minStart) * DAY_WIDTH) \div DAY_MS

\* the same as the chart drew it before: an actual bar only for a row with
\* both actual dates
rowBarsBothDatesOnly(row, minStart, today) ==
  LET width(from, to) == Max(((to - from) * DAY_WIDTH) \div DAY_MS, DAY_WIDTH \div 2)
  IN  [id |-> row.id,
       planned |-> IF IsSet(row.plannedStart) /\ IsSet(row.plannedEnd)
                   THEN <<[left |-> Left(row.plannedStart, minStart),
                           width |-> width(row.plannedStart, row.plannedEnd)]>>
                   ELSE <<>>,
       actual |-> IF IsSet(row.actualStart) /\ IsSet(row.actualEnd)
                  THEN <<[left |-> Left(row.actualStart, minStart),
                          width |-> width(row.actualStart, row.actualEnd),
                          from |-> row.actualStart,
                          to |-> row.actualEnd]>>
                  ELSE <<>>]

\* the planned bar and the actual bar drawn for a row, each <<>> when none is
rowBars(row, minStart, today) ==
  LET actualStartValue == IF row.actualStart = NoTime THEN row.actualEnd ELSE row.actualStart
      hasActual == IsSet(actualStartValue)
      actualEndValue ==
        IF IsSet(row.actualEnd) THEN Max(row.actualEnd, actualStartValue)
        ELSE IF IsSet(actualStartValue) THEN Max(today, actualStartValue)
        ELSE NoTime
      width(from, to) == Max(((to - from) * DAY_WIDTH) \div DAY_MS, DAY_WIDTH \div 2)
  IN  [id |-> row.id,
       planned |-> IF IsSet(row.plannedStart) /\ IsSet(row.plannedEnd)
                   THEN <<[left |-> Left(row.plannedStart, minStart),
                           width |-> width(row.plannedStart, row.plannedEnd)]>>
                   ELSE <<>>,
       actual |-> IF hasActual
                  THEN <<[left |-> Left(actualStartValue, minStart),
                          width |-> width(actualStartValue, actualEndValue),
                          from |-> actualStartValue,
                          to |-> actualEndValue]>>
                  ELSE <<>>]

\* what GanttChart computes from its props at time now in zone tz
GanttChart(tree, show, now, tz) ==
  LET rows == buildRows(tree, show.works, show.tasks)
      markers == todoMarkers(tree, show.works, show.tasks, show.todos)
      bounds == timelineBounds(rows, markers, now, tz)
  IN  [fn |-> "GanttChart", phases |-> tree, show |-> show, now |-> now, tz |-> tz,
       rows |-> rows,
       todoMarkers |-> markers,
       minStart |-> bounds.minStart,
       maxEnd |-> bounds.maxEnd,
       timelineWidth |-> IF bounds.totalDays = NoTime THEN NoTime
                         ELSE bounds.totalDays * DAY_WIDTH,
       bars |-> IF rows = <<>> THEN <<>>
                ELSE [i \in DOMAIN rows |-> rowBars(rows[i], bounds.minStart, now)],
       markers |-> IF rows = <<>> THEN <<>>
                   ELSE [i \in DOMAIN markers |->
                           [id |-> markers[i].id, left |-> Left(markers[i].due, bounds.minStart)]]]

\* the dates of a Phase, Work or Task as the hierarchy response carries them
GanttDates ==
  {[plannedStart |-> "2025-02-14", plannedEnd |-> "2025-03-01",
    actualStart |-> Null, actualEnd |-> Null],
   [plannedStart |-> "2025-02-14", plannedEnd |-> "2025-03-02",
    actualStart |-> Today, actualEnd |-> Null],
   [plannedStart |-> "2025-02-14", plannedEnd |-> "2025-03-01",
    actualStart |-> "2025-02-07", actualEnd |-> "2025-02-01"],
   [plannedStart |-> "2025-02-01", plannedEnd |-> "2025-02-14",
    actualStart |-> "2025-02-01", actualEnd |-> "2025-02-07"],
   [plannedStart |-> "2025-02-14", plannedEnd |-> "2025-03-01",
    actualStart |-> Null, actualEnd |-> "2025-02-01"],
   [plannedStart |-> Unparseable, plannedEnd |-> "2025-03-01",
    actualStart |-> Null, actualEnd |-> Null],
   [plannedStart |-> "2025-02-14", plannedEnd |-> Empty,
    actualStart |-> Null, actualEnd |-> Null]}
DueDates == {Null, Unparseable, "2025-02-01", "2025-03-02"}

\* the trees: none, or one Phase over one Work over one Task with one Todo
GanttTrees ==
  {<<>>}
  \cup {<<[id |-> 1] @@ phase @@
           [works |-> <<[id |-> 2] @@ work @@
              [tasks |-> <<[id |-> 3] @@ task @@
                 [todos |-> <<[id |-> 4, dueDate |-> due, status |-> "NOT_STARTED"]>>]>>]>>]>> :
          phase \in GanttDates, work \in GanttDates, task \in GanttDates, due \in DueDates}

\* the toggles App keeps: an id is absent until its toggle is first used
Toggles == [works : {EmptyTable, 1 :> False}, tasks : {EmptyTable, 2 :> False},
            todos : {EmptyTable, 3 :> False}]

\* Date.now(): the morning and the evening of Today, UTC
Nows == {parseDate(Today) + 3, parseDate(Today) + 7}
\* UTC, UTC+9 and UTC-6
TimeZones == {0, 3, -2}

\* the props GanttChart is mounted with
InitGantt ==
  /\ projects = {}
  /\ phases = EmptyTable
  /\ works = EmptyTable
  /\ tasks = EmptyTable
  /\ todos = EmptyTable
  /\ nextId = 0
  /\ resp = Reply(0)
  /\ call \in {[fn |-> "props", phases |-> tree, show |-> show, now |-> now, tz |-> tz] :
                 tree \in GanttTrees, show \in Toggles, now \in Nows, tz \in TimeZones}
  /\ ui = NoUi
  /\ net = NoRequests

Render ==
  /\ call.fn = "props"
  /\ call' = GanttChart(call.phases, call.show, call.now, call.tz)
  /\ UNCHANGED <<store, resp, client>>

\* a show toggle is flipped and the chart renders again
Flip(show, id) == IF Shown(show, id) THEN id :> False ELSE id :> True
ToggleShow ==
  /\ call.fn = "GanttChart"
  /\ \E kind \in {"works", "tasks", "todos"} :
       LET id == CASE kind = "works" -> 1 [] kind = "tasks" -> 2 [] kind = "todos" -> 3
           show == [call.show EXCEPT ![kind] = Flip(@, id)]
       IN  call' = GanttChart(call.phases, show, call.now, call.tz)
  /\ UNCHANGED <<store, resp, client>>

NextGantt ==
  \/ Render
  \/ ToggleShow

SpecGantt == InitGantt /\ [][NextGantt]_vars

\* ------------------------------------------------------------------ two patches in flight
\* two PATCH requests for the same Phase, Work or Task of the seeded store are
\* in flight at once; the server takes them one at a time, in either order.
\* A request is [n, type, id, patch, served, status]: n the order of sending,
\* served the order of handling (0 while waiting), status the reply's
RaceDates == {Undefined, Empty, Date1, Tomorrow}
RacePatches == [actualStart : RaceDates, actualEnd : RaceDates]
RaceTargets == {<<"phases", 2>>, <<"works", 3>>, <<"tasks", 4>>}

PatchRequest(n, target, patch) ==
  [n |-> n, type |-> target[1], id |-> target[2], patch |-> patch, served |-> 0, status |-> 0]

Waiting == {r \in net : r.served = 0}

\* api.patchEntity(type, id, patch), twice before either reply
SendTwoPatches ==
  /\ net = NoRequests
  /\ \E target \in RaceTargets, first \in RacePatches, second \in RacePatches :
       net' = {PatchRequest(1, target, first), PatchRequest(2, target, second)}
  /\ UNCHANGED <<store, resp, call, ui>>

\* router.patch('/phases/:id' | '/works/:id' | '/tasks/:id'): one request is
\* handled to its end before the next one is looked at
ServePatch ==
  /\ \E r \in Waiting :
       /\ CASE r.type = "phases" -> updatePhase(r.id, r.patch)
            [] r.type = "works" -> updateWork(r.id, r.patch)
            [] r.type = "tasks" -> updateTask(r.id, r.patch)
       /\ net' = (net \ {r})
                 \cup {[r EXCEPT !.served = 1 + Cardinality(net \ Waiting),
                                 !.status = resp'.status]}
  /\ UNCHANGED <<call, ui>>

NextRace ==
  \/ SendTwoPatches
  \/ ServePatch

\* two patches to one node of the seeded store, handled in either order
SpecRace == InitSeed /\ [][NextRace]_vars

\* ------------------------------------------------------------------ web: App
\* The browser side: App's state hooks are ui, the requests of api.ts and
\* their replies are net. A request is [n, op, id, text, for, then, m, input,
\* reply]: n the order of sending, op the api function, id and text its
\* arguments, for the selectedProjectId its caller's closure holds, then the
\* code that awaits it, m the mutate call it belongs to, input the Todo whose
\* title field awaits that call, reply the response (status 0 while the
\* server has not handled it). selectedProjectId 0 is null.
NoHierarchy == [project |-> 0, phases |-> <<>>]
NoFilter == [assigneeId |-> Undefined, status |-> Undefined]
NoDrafts == [t \in {} |-> Empty]

\* the messages of setError
LoadFailed == "projects not loaded"
HierarchyFailed == "hierarchy not loaded"
TodayFailed == "today's todos not loaded"
UpdateFailed == "update failed"
DeleteFailed == "project not deleted"

\* the state hooks on mount; sent counts the requests made, clicks the user's
\* actions
AppState ==
  [view |-> "project", projects |-> {}, selectedProjectId |-> 0, hierarchy |-> NoHierarchy,
   todayTodos |-> <<>>, error |-> Empty, drafts |-> NoDrafts, saving |-> {},
   sent |-> 0, clicks |-> 0]

Request(n, op, id, for, then) ==
  [n |-> n, op |-> op, id |-> id, text |-> Empty, for |-> for, then |-> then,
   m |-> 0, input |-> 0, reply |-> Reply(0)]

Pending == {r \in net : r.reply.status = 0}

\* res.ok
Ok(r) == r.reply.status \in {200, 201, 204}

\* SELECT * FROM projects ORDER BY createdAt DESC: data[0]
Newest(ids) == CHOOSE p \in ids : \A q \in ids : q <= p

\* the Todos the hierarchy view renders, each with an InlineInput for its title
ShownTodos(h) ==
  UNION {UNION {UNION {{h.phases[i].works[j].tasks[k].todos[l] :
                          l \in DOMAIN h.phases[i].works[j].tasks[k].todos} :
                       k \in DOMAIN h.phases[i].works[j].tasks} :
                j \in DOMAIN h.phases[i].works} :
         i \in DOMAIN h.phases}
TitleOf(h, t) == (CHOOSE todo \in ShownTodos(h) : todo.id = t).title

\* setHierarchy(data): a title field whose value changed takes the new value
\* as its draft (useEffect [value]), a new one mounts with it, the others
\* keep their drafts
setHierarchy(u, data) ==
  [u EXCEPT !.hierarchy = data,
            !.drafts = [t \in {todo.id : todo \in ShownTodos(data)} |->
                          IF t \in DOMAIN u.drafts /\ TitleOf(u.hierarchy, t) = TitleOf(data, t)
                          THEN u.drafts[t] ELSE TitleOf(data, t)]]

\* project view: currentProject && hierarchy
ProjectShown(u) ==
  /\ u.view = "project"
  /\ u.selectedProjectId \in u.projects
  /\ u.hierarchy /= NoHierarchy

\* refreshHierarchy(projectId) and refreshTodayTodos(projectId), up to their awaits
refresh(u, projectId, then, m, input) ==
  [ui |-> [u EXCEPT !.error = Empty, !.sent = @ + 2],
   out |-> {[Request(u.sent + 1, "fetchHierarchy", projectId, projectId, then)
               EXCEPT !.m = m, !.input = input],
            [Request(u.sent + 2, "fetchTodayTodos", projectId, projectId, then)
               EXCEPT !.m = m, !.input = input]}]

\* loadProjects(), up to its await
loadProjects(u, id, for, then, input) ==
  [ui |-> [u EXCEPT !.error = Empty, !.sent = @ + 1],
   out |-> {[Request(u.sent + 1, "fetchProjects", id, for, then) EXCEPT !.input = input]}]

Settled(u) == [ui |-> u, out |-> {}]

\* the effects after a render: with no project selected the first of the list
\* is selected, and a newly selected project is fetched
Effects(before, after) ==
  LET selected == IF after.selectedProjectId = 0 /\ after.projects /= {}
                  THEN Newest(after.projects) ELSE after.selectedProjectId
      u == [after EXCEPT !.selectedProjectId = selected]
  IN  IF selected /= 0 /\ selected /= before.selectedProjectId
      THEN refresh(u, selected, "refresh", 0, 0)
      ELSE Settled(u)

\* useEffect(() => { loadProjects() }, [])
OpenApp ==
  /\ ui = NoUi
  /\ LET load == loadProjects(AppState, 0, 0, "loadProjects", 0)
     IN  /\ ui' = load.ui
         /\ net' = load.out
  /\ UNCHANGED <<store, resp, call>>

CanClick == ui /= NoUi /\ ui.clicks < MaxClicks
Clicked == [ui EXCEPT !.clicks = @ + 1]

\* ProjectSidebar onSelect
ClickSelect ==
  /\ CanClick
  /\ \E p \in ui.projects \ {ui.selectedProjectId} :
       LET e == Effects(ui, [Clicked EXCEPT !.selectedProjectId = p, !.view = "project"])
       IN  /\ ui' = e.ui
           /\ net' = net \cup e.out
  /\ UNCHANGED <<store, resp, call>>

\* mutate(action), up to its first await
mutate(u, op, id, text, input) ==
  IF u.selectedProjectId = 0 THEN Settled(u)
  ELSE [ui |-> [u EXCEPT !.error = Empty, !.sent = @ + 1],
        out |-> {[Request(u.sent + 1, op, id, u.selectedProjectId, "mutate")
                    EXCEPT !.text = text, !.m = u.sent + 1, !.input = input]}]

\* onAddPhase: mutate(() => api.createPhase(currentProject.id, payload), true)
ClickAddPhase ==
  /\ CanClick
  /\ ProjectShown(ui)
  /\ LET call1 == mutate(Clicked, "createPhase", ui.selectedProjectId, Empty, 0)
     IN  /\ ui' = call1.ui
         /\ net' = net \cup call1.out
  /\ UNCHANGED <<store, resp, call>>

\* handleDeleteProject, up to its first await
ClickDeleteProject ==
  /\ CanClick
  /\ \E p \in ui.projects :
       /\ ui' = [Clicked EXCEPT !.error = Empty, !.sent = @ + 1]
       /\ net' = net \cup {Request(ui.sent + 1, "deleteProject", p, ui.selectedProjectId, "deleted")}
  /\ UNCHANGED <<store, resp, call>>

\* the texts typed into a title field
EditTitles == {Empty, "b"}

\* InlineInput onChange: setDraft(e.target.value)
TypeTitle ==
  /\ CanClick
  /\ ProjectShown(ui)
  /\ \E t \in DOMAIN ui.drafts \ ui.saving :
       \E text \in EditTitles \ {ui.drafts[t]} :
         ui' = [Clicked EXCEPT !.drafts[t] = text]
  /\ UNCHANGED <<store, resp, call, net>>

\* InlineInput onBlur: commit(), up to its await of
\* updateTodo(todo.id, { title }) -> handlers.onUpdateTodo -> mutate
BlurTitle ==
  /\ CanClick
  /\ ProjectShown(ui)
  /\ \E t \in DOMAIN ui.drafts \ ui.saving :
       /\ ui.drafts[t] /= TitleOf(ui.hierarchy, t)
       /\ LET call1 == mutate([Clicked EXCEPT !.saving = @ \cup {t}],
                              "patchTodo", t, ui.drafts[t], t)
          IN  /\ ui' = call1.ui
              /\ net' = net \cup call1.out
  /\ UNCHANGED <<store, resp, call>>

\* todoPatchSchema.parse throws: title is z.string().min(1).optional()
todoPatchSchemaRejects(body) == body.title = Empty

\* the express route of a request, handled to its end
Serve ==
  /\ \E r \in Pending :
       /\ CASE r.op = "fetchProjects" -> listProjects
            [] r.op = "deleteProject" -> deleteProject(r.id)
            [] r.op = "fetchHierarchy" -> getHierarchy(r.id)
            [] r.op = "fetchTodayTodos" -> listTodayTodos(r.id, NoFilter)
            [] r.op = "createPhase" ->
                 createPhase([projectId |-> r.id, actualStart |-> Undefined,
                              actualEnd |-> Undefined])
            [] r.op = "patchTodo" ->
                 IF todoPatchSchemaRejects([title |-> r.text])
                 THEN resp' = Reply(400) /\ UNCHANGED store
                 ELSE updateTodo(r.id, [title |-> r.text])
       /\ net' = (net \ {r})
                 \cup {[r EXCEPT !.reply = resp']}
  /\ UNCHANGED <<call, ui>>

\* the code after the await that the reply r ends, up to the next await
Resume(u, r, others) ==
  CASE r.op = "fetchProjects" ->
         LET data == DOMAIN r.reply.body
             loaded == IF ~Ok(r) THEN [u EXCEPT !.error = LoadFailed]
                       ELSE [u EXCEPT !.projects = data,
                                      !.selectedProjectId =
                                         IF r.for = 0 /\ data /= {} THEN Newest(data) ELSE @]
         IN  IF r.then = "mutated" THEN Settled([loaded EXCEPT !.saving = @ \ {r.input}])
             ELSE Settled(loaded)
    [] r.op = "deleteProject" ->
         IF Ok(r)
         THEN loadProjects(IF r.for = r.id
                           THEN setHierarchy([u EXCEPT !.selectedProjectId = 0,
                                                       !.todayTodos = <<>>], NoHierarchy)
                           ELSE u,
                           0, r.for, "loadProjects", 0)
         ELSE Settled([u EXCEPT !.error = DeleteFailed])
    [] r.then = "mutate" ->
         IF Ok(r) THEN refresh(u, r.for, "mutated", r.m, r.input)
         ELSE Settled([u EXCEPT !.error = UpdateFailed, !.saving = @ \ {r.input}])
    [] OTHER ->
         LET shown == CASE ~Ok(r) /\ r.op = "fetchHierarchy" -> [u EXCEPT !.error = HierarchyFailed]
                        [] ~Ok(r) -> [u EXCEPT !.error = TodayFailed]
                        [] r.op = "fetchHierarchy" -> setHierarchy(u, r.reply.body)
                        [] OTHER -> [u EXCEPT !.todayTodos = r.reply.body]
         IN  IF r.then = "mutated" /\ \A q \in others : q.m /= r.m
             THEN loadProjects(shown, 0, r.for, "mutated", r.input)
             ELSE Settled(shown)

\* a reply reaches the browser; the replies in flight arrive in any order
Receive ==
  /\ \E r \in net \ Pending :
       LET step == Resume(ui, r, net \ {r})
           e == Effects(ui, step.ui)
       IN  /\ ui' = e.ui
           /\ net' = (net \ {r}) \cup step.out \cup e.out
  /\ UNCHANGED <<store, resp, call>>

\* POST /api/projects in an earlier session
CreateProjectBefore ==
  /\ ui = NoUi
  /\ Cardinality(projects) < MaxProjects
  /\ CreateProject

NextApp ==
  \/ CreateProjectBefore
  \/ OpenApp
  \/ ClickSelect
  \/ ClickAddPhase
  \/ ClickDeleteProject
  \/ Serve
  \/ Receive

\* one browser on an empty database
SpecApp == Init /\ [][NextApp]_vars

NextEdit ==
  \/ OpenApp
  \/ TypeTitle
  \/ BlurTitle
  \/ Serve
  \/ Receive

\* one browser on the seeded database, editing Todo titles in place
SpecEdit == InitSeed /\ [][NextEdit]_vars

\* ------------------------------------------------------------------ web: App layout
\* The measurement of the rendered rows. Here ui is [view, collapse, show,
\* layout, root, mounts, frames, frameId, listeners, cleanup, rects]: show is
\* showWorksByPhase of the first Phase, layout numbers what is rendered
\* (hierarchy data, toggles, viewport), root is the element
\* hierarchyRef.current holds (0 for null) and mounts the elements mounted so
\* far, frames are the animation frames requested and not yet run, each with
\* its id and the root its measure closes over, listeners the roots of the
\* resize listeners, cleanup the frame id the last effect's cleanup cancels
\* (0 when the effect returned early), rects the layout itemRects was
\* measured from.
NoRects == -1
\* every rectangle of a detached element is 0 x 0 at (0, 0)
DetachedRects == -2

\* measure() of the effect that captured root
measure(u, root) == [u EXCEPT !.rects = IF root = u.root THEN u.layout ELSE DetachedRects]

\* useLayoutEffect on [hierarchy, showWorksByPhase, showTasksByWork,
\* showTodosByTask, collapseHierarchy]: the cleanup of the last run, then the
\* body, which returns early when hierarchyRef or ganttRowsRef holds null
LayoutEffect(u) ==
  LET cleaned == [u EXCEPT !.frames = {f \in @ : f.id /= u.cleanup},
                           !.listeners = {},
                           !.cleanup = 0]
  IN  IF cleaned.root = 0 \/ cleaned.view /= "project" THEN cleaned
      ELSE [cleaned EXCEPT !.frames = @ \cup {[id |-> u.frameId + 1, root |-> u.root]},
                           !.frameId = @ + 1,
                           !.listeners = {u.root},
                           !.cleanup = u.frameId + 1]

LayoutOpen == ui /= NoUi
CanChange == LayoutOpen /\ ui.layout < MaxLayouts
CanMount == LayoutOpen /\ ui.mounts < MaxMounts

\* the first render of the project view with its hierarchy
ShowProject ==
  /\ ui = NoUi
  /\ ui' = LayoutEffect([view |-> "project", collapse |-> False, show |-> True,
                         layout |-> 1, root |-> 1,
                         mounts |-> 1, frames |-> {}, frameId |-> 0, listeners |-> {},
                         cleanup |-> 0, rects |-> NoRects])
  /\ UNCHANGED <<store, resp, call, net>>

\* setHierarchy(data) after a re-fetch, in either view
ChangeHierarchy ==
  /\ CanChange
  /\ ui' = LayoutEffect([ui EXCEPT !.layout = @ + 1])
  /\ UNCHANGED <<store, resp, call, net>>

\* togglePhaseWorks, a button of the hierarchy view
ToggleRows ==
  /\ CanChange
  /\ ui.root /= 0
  /\ ui' = LayoutEffect([ui EXCEPT !.show = IF @ = True THEN False ELSE True,
                                   !.layout = @ + 1])
  /\ UNCHANGED <<store, resp, call, net>>

\* setCollapseHierarchy((prev) => !prev): the left column is unmounted, or
\* mounted anew
ToggleCollapse ==
  /\ CanChange
  /\ ui.view = "project"
  /\ ui.collapse = False \/ CanMount
  /\ ui' = LayoutEffect(IF ui.collapse = False
                        THEN [ui EXCEPT !.collapse = True, !.root = 0, !.layout = @ + 1]
                        ELSE [ui EXCEPT !.collapse = False, !.root = ui.mounts + 1,
                                        !.mounts = @ + 1, !.layout = @ + 1])
  /\ UNCHANGED <<store, resp, call, net>>

\* window resize: the listeners run measure at once
Resize ==
  /\ CanChange
  /\ LET resized == [ui EXCEPT !.layout = @ + 1]
     IN  ui' = IF ui.listeners = {} THEN resized
               ELSE measure(resized, CHOOSE root \in ui.listeners : TRUE)
  /\ UNCHANGED <<store, resp, call, net>>

\* ProjectSidebar onSelectToday: setViewMode('today'), the project view is unmounted
SelectToday ==
  /\ LayoutOpen
  /\ ui.view = "project"
  /\ ui' = [ui EXCEPT !.view = "today", !.root = 0]
  /\ UNCHANGED <<store, resp, call, net>>

\* ProjectSidebar onSelect of the selected project: setViewMode('project'),
\* the project view is mounted anew
SelectProject ==
  /\ CanMount
  /\ ui.view = "today"
  /\ ui' = [ui EXCEPT !.view = "project",
                      !.root = IF ui.collapse = True THEN 0 ELSE ui.mounts + 1,
                      !.mounts = @ + 1]
  /\ UNCHANGED <<store, resp, call, net>>

\* the browser runs a requested animation frame
RunFrame ==
  /\ LayoutOpen
  /\ \E f \in ui.frames : ui' = measure([ui EXCEPT !.frames = @ \ {f}], f.root)
  /\ UNCHANGED <<store, resp, call, net>>

NextLayout ==
  \/ ShowProject
  \/ ChangeHierarchy
  \/ ToggleRows
  \/ ToggleCollapse
  \/ Resize
  \/ SelectToday
  \/ SelectProject
  \/ RunFrame

\* the project view of the seeded project and its measurement passes
SpecLayout == InitSeed /\ [][NextLayout]_vars

\* ------------------------------------------------------------------ the earlier projectService
\* updatePhase / updateWork / updateTask of the earlier service: the patch goes
\* to the repository as it came, no lookup, no trimming, no status
legacyUpdatePhase(id, patch) ==
  /\ phases' = updateEntity(phases, id, patch)
  /\ resp' = Reply(200)
  /\ UNCHANGED <<projects, works, tasks, todos, nextId>>

legacyUpdateWork(id, patch) ==
  /\ works' = updateEntity(works, id, patch)
  /\ resp' = Reply(200)
  /\ UNCHANGED <<projects, phases, tasks, todos, nextId>>

legacyUpdateTask(id, patch) ==
  /\ tasks' = updateEntity(tasks, id, patch)
  /\ resp' = Reply(200)
  /\ UNCHANGED <<projects, phases, works, todos, nextId>>

LegacyDates == {Undefined, Empty, Blank, Date1}
LegacyPatches == [actualStart : LegacyDates, actualEnd : LegacyDates]

LegacyUpdatePhase ==
  /\ \E id \in Targets(DOMAIN phases) :
       \E patch \in IF id \in DOMAIN phases THEN LegacyPatches ELSE NoPatch :
         legacyUpdatePhase(id, patch)
  /\ UNCHANGED <<call, client>>
LegacyUpdateWork ==
  /\ \E id \in Targets(DOMAIN works) :
       \E patch \in IF id \in DOMAIN works THEN LegacyPatches ELSE NoPatch :
         legacyUpdateWork(id, patch)
  /\ UNCHANGED <<call, client>>
LegacyUpdateTask ==
  /\ \E id \in Targets(DOMAIN tasks) :
       \E patch \in IF id \in DOMAIN tasks THEN LegacyPatches ELSE NoPatch :
         legacyUpdateTask(id, patch)
  /\ UNCHANGED <<call, client>>

NextLegacy ==
  \/ LegacyUpdatePhase
  \/ LegacyUpdateWork
  \/ LegacyUpdateTask
  \/ GetHierarchy
  \/ ListProjects

\* the seeded store written by the earlier service and read by the present one
SpecLegacy == InitSeed /\ [][NextLegacy]_vars

\* ------------------------------------------------------------------ claims
\* presence as the specification words it: a string that is non-empty after trimming
Present(value) == value \notin {Undefined, Null} /\ Trim(value) /= Empty

\* C6: for every pair (actualStart, actualEnd), deriveStatus is DONE iff
\* actualEnd is present, otherwise IN_PROGRESS iff actualStart is present,
\* otherwise NOT_STARTED, a value being present only if it is non-empty after
\* trimming.
C6_DeriveStatusTrimmedPresence ==
  call.fn = "deriveStatusFromActual" =>
    call.result = IF Present(call.actualEnd) THEN "DONE"
                  ELSE IF Present(call.actualStart) THEN "IN_PROGRESS"
                  ELSE "NOT_STARTED"

\* the number of list positions holding a given status
CountOf(statuses, status) == Cardinality({i \in 1..Len(statuses) : statuses[i] = status})

SpecStatus(actualStart, actualEnd) ==
  IF Present(actualEnd) THEN "DONE"
  ELSE IF Present(actualStart) THEN "IN_PROGRESS"
  ELSE "NOT_STARTED"

DerivedRows(table) ==
  \A id \in DOMAIN table :
    table[id].status = SpecStatus(table[id].actualStart, table[id].actualEnd)

NearestMean(values) ==
  IF Len(values) = 0 THEN 0
  ELSE CHOOSE r \in 0..100 :
         /\ (2 * r - 1) * Len(values) <= 2 * SumSeq(values)
         /\ 2 * SumSeq(values) < (2 * r + 1) * Len(values)

PhaseProgresses(projectId) ==
  LET tree == HierarchyTree(projectId)
  IN  [i \in 1..Len(tree.phases) |-> tree.phases[i].progress]

\* C4: the progress listProjects reports for a project is the unweighted mean,
\* rounded to the nearest integer, of the progress values getHierarchy reports
\* for the project's Phases, and 0 when the project has no Phase.
C4_ProjectProgressIsMeanOfPhases ==
  resp.kind = "projects" =>
    \A p \in DOMAIN resp.body :
      resp.body[p].progress = NearestMean(PhaseProgresses(p))

\* listProjects has answered for a project whose two Phases stand at 100 and 0
C4_Witness ==
  /\ resp.kind = "projects"
  /\ \E p \in DOMAIN resp.body :
       /\ Len(PhaseProgresses(p)) = 2
       /\ {PhaseProgresses(p)[1], PhaseProgresses(p)[2]} = {0, 100}
       /\ resp.body[p].progress = 50

BlankStrings == {Empty, Blank}
ClearingPatches == [actualStart : PayloadDates, actualEnd : BlankStrings]

\* what the claim asks of the table an update stores (after) for the row id of
\* the table it found (before)
ClearsActualEnd(before, after, id, patch) ==
  /\ after[id].actualEnd = Null
  /\ patch.actualStart = Undefined => after[id].actualStart = before[id].actualStart
  /\ after[id].status = IF Present(after[id].actualStart) THEN "IN_PROGRESS" ELSE "NOT_STARTED"

ClearsIn(table) ==
  \A id \in DOMAIN table : \A patch \in ClearingPatches :
    ClearsActualEnd(table, updatePlanning(table, id, patch), id, patch)

\* C8: for every stored Phase, Work and Task, the table that updatePhase /
\* updateWork / updateTask stores for a patch whose actualEnd is the empty or
\* a whitespace-only string has the row's actualEnd cleared, its actualStart
\* as it was (unless the patch supplies one) and its status IN_PROGRESS if
\* actualStart is present and NOT_STARTED otherwise.
C8_BlankActualEndClears == ClearsIn(phases) /\ ClearsIn(works) /\ ClearsIn(tasks)

\* a PATCH has just been answered and a Phase that was started has no
\* actualEnd and is IN_PROGRESS
C8_Witness ==
  /\ resp = Reply(200)
  /\ \E id \in DOMAIN phases :
       /\ phases[id].actualStart = Date1
       /\ phases[id].actualEnd = Null
       /\ phases[id].status = "IN_PROGRESS"

\* C10: every Work's phaseId names a Phase of the Work's own project, every
\* Task's workId a Work of the Task's project, every Todo's taskId a Task of
\* the Todo's project.
C10_ParentInSameProject ==
  /\ \A id \in DOMAIN works :
       /\ works[id].phaseId \in DOMAIN phases
       /\ phases[works[id].phaseId].projectId = works[id].projectId
  /\ \A id \in DOMAIN tasks :
       /\ tasks[id].workId \in DOMAIN works
       /\ works[tasks[id].workId].projectId = tasks[id].projectId
  /\ \A id \in DOMAIN todos :
       /\ todos[id].taskId \in DOMAIN tasks
       /\ tasks[todos[id].taskId].projectId = todos[id].projectId

\* the percentage the specification gives a status
SpecPercent(status) ==
  CASE status = "DONE" -> 100
    [] status = "IN_PROGRESS" -> 50
    [] OTHER -> 0

\* the status the specification derives for a Phase, Work or Task node
NodeStatus(node) == SpecStatus(node.actualStart, node.actualEnd)
NodeStatuses(nodes) == [i \in 1..Len(nodes) |-> NodeStatus(nodes[i])]

\* the progress of a node by the specification's policy
SpecProgress(childStatuses, ownStatus) ==
  IF Len(childStatuses) > 0
  THEN NearestMean([i \in 1..Len(childStatuses) |-> SpecPercent(childStatuses[i])])
  ELSE SpecPercent(ownStatus)

PhaseNodes(tree) == {tree.phases[i] : i \in DOMAIN tree.phases}
WorkNodes(tree) == UNION {{phase.works[j] : j \in DOMAIN phase.works} : phase \in PhaseNodes(tree)}
TaskNodes(tree) == UNION {{work.tasks[k] : k \in DOMAIN work.tasks} : work \in WorkNodes(tree)}

\* C3: in the tree getHierarchy returns, the progress of a Phase, Work or Task
\* with at least one child is the rounded mean weight of its immediate
\* children's statuses, whatever its own status, and the progress of one
\* without children is 0, 50 or 100 for an own derived status of NOT_STARTED,
\* IN_PROGRESS or DONE.
C3_ProgressFromChildrenOrOwn ==
  resp.kind = "hierarchy" =>
    /\ \A phase \in PhaseNodes(resp.body) :
         phase.progress = SpecProgress(NodeStatuses(phase.works), NodeStatus(phase))
    /\ \A work \in WorkNodes(resp.body) :
         work.progress = SpecProgress(NodeStatuses(work.tasks), NodeStatus(work))
    /\ \A task \in TaskNodes(resp.body) :
         task.progress = SpecProgress(Statuses(task.todos), NodeStatus(task))

\* getHierarchy has answered with a finished Phase at 50 because its only
\* Work, which has no Task, is in progress
C3_Witness ==
  /\ resp.kind = "hierarchy"
  /\ \E phase \in PhaseNodes(resp.body) :
       /\ NodeStatus(phase) = "DONE"
       /\ phase.progress = 50
       /\ Len(phase.works) = 1
       /\ Len(phase.works[1].tasks) = 0
       /\ NodeStatus(phase.works[1]) = "IN_PROGRESS"
       /\ phase.works[1].progress = 50

\* C2: every Phase, Work and Task node getHierarchy returns carries the status
\* derived from the actual dates of its stored row, whatever the stored status
\* column holds, and every node's progress is computed from those derived
\* statuses.
C2_HierarchyStatusDerivedOnRead ==
  resp.kind = "hierarchy" =>
    /\ \A phase \in PhaseNodes(resp.body) :
         /\ phase.status = SpecStatus(phases[phase.id].actualStart, phases[phase.id].actualEnd)
         /\ phase.progress = SpecProgress(NodeStatuses(phase.works), phase.status)
    /\ \A work \in WorkNodes(resp.body) :
         /\ work.status = SpecStatus(works[work.id].actualStart, works[work.id].actualEnd)
         /\ work.progress = SpecProgress(NodeStatuses(work.tasks), work.status)
    /\ \A task \in TaskNodes(resp.body) :
         /\ task.status = SpecStatus(tasks[task.id].actualStart, tasks[task.id].actualEnd)
         /\ task.progress = SpecProgress(Statuses(task.todos), task.status)

\* the scenario: one Phase, one Work, one Task, Todos DONE, DONE, NOT_STARTED
InScenario(tree) ==
  /\ Len(tree.phases) = 1
  /\ Len(tree.phases[1].works) = 1
  /\ Len(tree.phases[1].works[1].tasks) = 1
  /\ Statuses(tree.phases[1].works[1].tasks[1].todos) = <<"DONE", "DONE", "NOT_STARTED">>

ScenarioWork(tree) == tree.phases[1].works[1]
ScenarioTask(tree) == tree.phases[1].works[1].tasks[1]

\* C5 as stated: in the scenario the Task, the Work, the Phase and the project
\* all stand at 67.
C5_ScenarioAllAt67 ==
  /\ (resp.kind = "hierarchy" /\ InScenario(resp.body)) =>
       /\ ScenarioTask(resp.body).progress = 67
       /\ ScenarioWork(resp.body).progress = 67
       /\ resp.body.phases[1].progress = 67
  /\ resp.kind = "projects" =>
       \A p \in DOMAIN resp.body :
         InScenario(HierarchyTree(p)) => resp.body[p].progress = 67

\* C5 amended: in the scenario the Task stands at 67; the Work stands at 0, 50
\* or 100 for a Task whose derived status is NOT_STARTED, IN_PROGRESS or DONE;
\* the Phase stands at 0, 50 or 100 for the Work's derived status; the
\* project's progress is the Phase's.
C5_ScenarioTaskAt67ParentsFromStatus ==
  /\ (resp.kind = "hierarchy" /\ InScenario(resp.body)) =>
       /\ ScenarioTask(resp.body).progress = 67
       /\ ScenarioWork(resp.body).progress = SpecPercent(NodeStatus(ScenarioTask(resp.body)))
       /\ resp.body.phases[1].progress = SpecPercent(NodeStatus(ScenarioWork(resp.body)))
  /\ resp.kind = "projects" =>
       \A p \in DOMAIN resp.body :
         InScenario(HierarchyTree(p)) =>
           resp.body[p].progress = SpecPercent(NodeStatus(ScenarioWork(HierarchyTree(p))))

\* getHierarchy has answered in the scenario: the Task at 67, its Work at 50
\* because the Task is in progress, the Phase at 100 because the Work is done
C5_Witness ==
  /\ resp.kind = "hierarchy"
  /\ InScenario(resp.body)
  /\ ScenarioTask(resp.body).progress = 67
  /\ ScenarioWork(resp.body).progress = 50
  /\ resp.body.phases[1].progress = 100

Unsupplied(patch, field) == field \notin DOMAIN patch \/ patch[field] = Undefined

\* a planning row after a patch: every column but status that the patch leaves
\* out is as before, and so is status when the patch has neither date
PlanningKeeps(before, after, patch) ==
  /\ \A field \in DOMAIN before \ {"status"} :
       Unsupplied(patch, field) => after[field] = before[field]
  /\ (Unsupplied(patch, "actualStart") /\ Unsupplied(patch, "actualEnd")) =>
       after.status = before.status

KeepsIn(table) ==
  \A id \in DOMAIN table : \A patch \in PlanningPatches :
    PlanningKeeps(table[id], updatePlanning(table, id, patch)[id], patch)

\* C9: for every stored row and every patch, the row updatePhase / updateWork
\* / updateTask / updateTodo stores keeps the prior value of every field the
\* patch does not supply: a Todo patched in its title only keeps its status,
\* and a Phase, Work or Task patched with neither actualStart nor actualEnd
\* keeps both dates and its status.
C9_UnsuppliedFieldsKept ==
  /\ KeepsIn(phases)
  /\ KeepsIn(works)
  /\ KeepsIn(tasks)
  /\ \A id \in DOMAIN todos : \A patch \in TodoPatches :
       \A field \in DOMAIN todos[id] :
         Unsupplied(patch, field) => updateEntity(todos, id, patch)[id][field] = todos[id][field]

\* a PATCH has just been answered and a renamed Todo is still in progress
C9_Witness ==
  /\ resp = Reply(200)
  /\ \E id \in DOMAIN todos :
       /\ todos[id].title = "b"
       /\ todos[id].status = "IN_PROGRESS"

NotFound == resp' = Reply(404) /\ UNCHANGED store

\* C11: a create naming a parent that does not exist (createWork a Phase,
\* createTask a Work, createTodo a Task) under an existing project, or naming
\* a project that does not exist, is answered 404 and inserts no row.
C11_CreateWithoutParentIsNotFound ==
  [][/\ \A payload \in PlanningPayloads :
          (payload.projectId \notin projects /\ createPhase(payload)) => NotFound
     /\ \A payload \in WorkPayloads :
          ((payload.projectId \notin projects \/ payload.phaseId \notin DOMAIN phases)
             /\ createWork(payload)) => NotFound
     /\ \A payload \in TaskPayloads :
          ((payload.projectId \notin projects \/ payload.workId \notin DOMAIN works)
             /\ createTask(payload)) => NotFound
     /\ \A payload \in TodoPayloads :
          ((payload.projectId \notin projects \/ payload.taskId \notin DOMAIN tasks)
             /\ createTodo(payload)) => NotFound]_vars

\* C12: an update or a delete of an id that matches no stored row
\* (updatePhase, updateWork, updateTask, updateTodo, deletePhase, deleteWork,
\* deleteTask, deleteTodo, deleteProject) is answered 404 and leaves the store
\* as it was.
C12_UnknownIdIsNotFound ==
  [][/\ \A id \in Ids \ DOMAIN phases :
          /\ \A patch \in NoPatch : updatePhase(id, patch) => NotFound
          /\ deletePhase(id) => NotFound
     /\ \A id \in Ids \ DOMAIN works :
          /\ \A patch \in NoPatch : updateWork(id, patch) => NotFound
          /\ deleteWork(id) => NotFound
     /\ \A id \in Ids \ DOMAIN tasks :
          /\ \A patch \in NoPatch : updateTask(id, patch) => NotFound
          /\ deleteTask(id) => NotFound
     /\ \A id \in Ids \ DOMAIN todos :
          /\ \A patch \in NoTodoPatch : updateTodo(id, patch) => NotFound
          /\ deleteTodo(id) => NotFound
     /\ \A id \in Ids \ projects : deleteProject(id) => NotFound]_vars

\* C13: getHierarchy and listTodayTodos called with a project id that matches
\* no project are answered 404 with no body and change nothing; a tree or a
\* list is only ever returned for a project that exists.
C13_UnknownProjectIsNotFound ==
  [][/\ \A id \in Missing(projects) :
          /\ getHierarchy(id) => NotFound
          /\ \A filter \in TodayFilters : listTodayTodos(id, filter) => NotFound
     /\ resp'.kind = "hierarchy" => resp'.body.project \in projects
     /\ resp'.kind = "today" => resp'.projectId \in projects]_vars

\* a read of the seeded store has just been answered 404
C13_Witness ==
  /\ resp = Reply(404)
  /\ projects /= {}
  /\ todos /= EmptyTable

\* whether a Todo passes the filter of a today query
PassesFilter(todo, filter) ==
  /\ filter.assigneeId /= Undefined => todo.assigneeId = filter.assigneeId
  /\ filter.status /= Undefined => todo.status = filter.status

\* C19: listTodayTodos(projectId, filter) returns exactly the Todos of the
\* project that are due on the current day or have the today flag set, and
\* that have the filter's assignee and the filter's status where given.
C19_TodayTodosDueOrFlagged ==
  resp.kind = "today" =>
    {resp.body[i].id : i \in DOMAIN resp.body}
      = {k \in DOMAIN todos :
           /\ todos[k].projectId = resp.projectId
           /\ todos[k].dueDate = Today \/ todos[k].todayFlag = Flag1
           /\ PassesFilter(todos[k], resp.filter)}

\* the rows of a table that a step removes, and whether it leaves the rest alone
Gone(before, after) == DOMAIN before \ DOMAIN after
Survive(before, after) ==
  /\ DOMAIN after \subseteq DOMAIN before
  /\ \A k \in DOMAIN after : after[k] = before[k]

\* C14: after a delete succeeds, no row remains whose project or parent is
\* gone (no descendant of the deleted item is left), the rows that remain are
\* as they were, and the rows removed form one subtree: exactly one of them,
\* the deleted item, has neither its project nor its parent among them.
C14_DeleteRemovesExactlyTheSubtree ==
  [][resp' = Reply(204) =>
       LET goneProjects == projects \ projects'
           gonePhases == Gone(phases, phases')
           goneWorks == Gone(works, works')
           goneTasks == Gone(tasks, tasks')
           goneTodos == Gone(todos, todos')
           roots == Cardinality(goneProjects)
                    + Cardinality({k \in gonePhases : phases[k].projectId \notin goneProjects})
                    + Cardinality({k \in goneWorks : /\ works[k].projectId \notin goneProjects
                                                     /\ works[k].phaseId \notin gonePhases})
                    + Cardinality({k \in goneTasks : /\ tasks[k].projectId \notin goneProjects
                                                     /\ tasks[k].workId \notin goneWorks})
                    + Cardinality({k \in goneTodos : /\ todos[k].projectId \notin goneProjects
                                                     /\ todos[k].taskId \notin goneTasks})
       IN  /\ \A k \in DOMAIN phases' : phases'[k].projectId \in projects'
           /\ \A k \in DOMAIN works' : /\ works'[k].projectId \in projects'
                                        /\ works'[k].phaseId \in DOMAIN phases'
           /\ \A k \in DOMAIN tasks' : /\ tasks'[k].projectId \in projects'
                                        /\ tasks'[k].workId \in DOMAIN works'
           /\ \A k \in DOMAIN todos' : /\ todos'[k].projectId \in projects'
                                        /\ todos'[k].taskId \in DOMAIN tasks'
           /\ projects' \subseteq projects
           /\ Survive(phases, phases') /\ Survive(works, works')
           /\ Survive(tasks, tasks') /\ Survive(todos, todos')
           /\ roots = 1]_vars

\* a delete has just been answered and the seeded Phase is left without its
\* Work, Task and Todos
C14_Witness ==
  /\ resp = Reply(204)
  /\ projects /= {}
  /\ phases /= EmptyTable
  /\ works = EmptyTable
  /\ tasks = EmptyTable
  /\ todos = EmptyTable

\* the order indices of the listed rows after a step: as they were, or the
\* positions in the list
AllOriginal(before, after, ids) ==
  \A i \in DOMAIN ids : ids[i] \in DOMAIN before => after[ids[i]].orderIndex = before[ids[i]].orderIndex
AllNew(before, after, ids) ==
  \A i \in DOMAIN ids : ids[i] \in DOMAIN before => after[ids[i]].orderIndex = i - 1

\* the table of a type after the step
TableAfter(type) ==
  CASE type = "phases" -> phases'
    [] type = "works" -> works'
    [] type = "tasks" -> tasks'
    [] type = "todos" -> todos'

\* C15: whenever a reorder ends, completed or interrupted after any number of
\* its writes, the order indices of the listed rows are either all the ones
\* they had or all the new ones, and no other row has changed.
C15_ReorderAllOrNothing ==
  [][resp'.kind = "reorder" =>
       LET before == TableOf(resp'.type)
           after == TableAfter(resp'.type)
           ids == resp'.ids
       IN  /\ AllOriginal(before, after, ids) \/ AllNew(before, after, ids)
           /\ \A k \in DOMAIN before :
                (\A i \in DOMAIN ids : ids[i] /= k) => after[k] = before[k]]_vars

\* a reorder of two Works that would have changed their order has just been
\* interrupted
C15_Witness ==
  /\ resp.kind = "reorder"
  /\ resp.status = 500
  /\ resp.type = "works"
  /\ Len(resp.ids) = 2
  /\ \A i \in DOMAIN resp.ids : resp.ids[i] \in DOMAIN works
  /\ works[resp.ids[1]].phaseId = works[resp.ids[2]].phaseId
  /\ works[resp.ids[1]].orderIndex > works[resp.ids[2]].orderIndex

\* the sibling lists of a tree: <<type, parent id, ids in the order returned>>
IdsOf(nodes) == [i \in DOMAIN nodes |-> nodes[i].id]
SiblingLists(tree) ==
  {<<"phases", tree.project, IdsOf(tree.phases)>>}
  \cup {<<"works", phase.id, IdsOf(phase.works)>> : phase \in PhaseNodes(tree)}
  \cup {<<"tasks", work.id, IdsOf(work.tasks)>> : work \in WorkNodes(tree)}
  \cup {<<"todos", task.id, IdsOf(task.todos)>> : task \in TaskNodes(tree)}

ParentField(type) ==
  CASE type = "phases" -> "projectId"
    [] type = "works" -> "phaseId"
    [] type = "tasks" -> "workId"
    [] type = "todos" -> "taskId"

\* whether ids lists the stored siblings of one parent, each exactly once
ListsOneScope(type, ids) ==
  LET table == TableOf(type)
      parent == ParentField(type)
  IN  /\ ids /= <<>>
      /\ \A i \in DOMAIN ids : ids[i] \in DOMAIN table
      /\ \A i, j \in DOMAIN ids : ids[i] = ids[j] => i = j
      /\ {ids[i] : i \in DOMAIN ids}
           = {k \in DOMAIN table : table[k][parent] = table[ids[1]][parent]}

\* the tables a completed reorder(type, ids) stores
AfterReorder(type, ids) ==
  LET Written(name, table) ==
        IF type = name THEN transaction(table, reorderTable(table, ids), TRUE) ELSE table
  IN  [phases |-> Written("phases", phases), works |-> Written("works", works),
       tasks |-> Written("tasks", tasks), todos |-> Written("todos", todos)]

\* the lists of ids that name every stored sibling of one parent exactly once
ScopeLists(type) ==
  {ids \in DistinctListsOf(DOMAIN TableOf(type), MaxReorder) : ListsOneScope(type, ids)}

\* C16: for every list ids of the siblings of one parent, each exactly once,
\* the tree getHierarchy returns from the tables a completed reorder(type, ids)
\* stores has those siblings in the order of ids and every other sibling list
\* as getHierarchy returns it from the tables before.
C16_ReorderSetsSiblingOrder ==
  \A type \in ReorderTypes : \A ids \in ScopeLists(type) :
    LET table == TableOf(type)
        p == table[ids[1]].projectId
        parent == table[ids[1]][ParentField(type)]
        before == SiblingLists(HierarchyTree(p))
        after == SiblingLists(TreeOf(listHierarchyIn(AfterReorder(type, ids), p), p))
    IN  /\ <<type, parent, ids>> \in after
        /\ after = {IF scope[1] = type /\ scope[2] = parent
                     THEN <<type, parent, ids>> ELSE scope : scope \in before}

DistinctOrder(table, parent) ==
  \A k, j \in DOMAIN table :
    (k /= j /\ table[k][parent] = table[j][parent]) => table[k].orderIndex /= table[j].orderIndex

\* C17: no two Phases of a project, Works of a Phase, Tasks of a Work or Todos
\* of a Task have the same order index.
C17_SiblingOrderIndicesDistinct ==
  /\ DistinctOrder(phases, "projectId")
  /\ DistinctOrder(works, "phaseId")
  /\ DistinctOrder(tasks, "workId")
  /\ DistinctOrder(todos, "taskId")

\* nodes, in the order returned, are exactly the stored rows that name parent,
\* each once, by ascending order index
ListsChildrenOf(nodes, table, parent, id) ==
  /\ \A i, j \in DOMAIN nodes : i < j =>
       /\ nodes[i].id /= nodes[j].id
       /\ nodes[i].orderIndex <= nodes[j].orderIndex
  /\ {nodes[i].id : i \in DOMAIN nodes} = {k \in DOMAIN table : table[k][parent] = id}

\* the ids of the stored rows of a project
RowsOfProject(table, projectId) == {k \in DOMAIN table : table[k].projectId = projectId}

\* C18: the tree getHierarchy returns lists the Phases of the project and,
\* under each Phase, Work and Task, exactly the Works, Tasks and Todos whose
\* reference names it, each once and by ascending order index; every Work,
\* Task and Todo of the project is in the tree.
C18_HierarchyListsChildrenUnderParent ==
  resp.kind = "hierarchy" =>
    LET tree == resp.body
    IN  /\ ListsChildrenOf(tree.phases, phases, "projectId", tree.project)
        /\ \A phase \in PhaseNodes(tree) : ListsChildrenOf(phase.works, works, "phaseId", phase.id)
        /\ \A work \in WorkNodes(tree) : ListsChildrenOf(work.tasks, tasks, "workId", work.id)
        /\ \A task \in TaskNodes(tree) : ListsChildrenOf(task.todos, todos, "taskId", task.id)
        /\ RowsOfProject(works, tree.project) = {work.id : work \in WorkNodes(tree)}
        /\ RowsOfProject(tasks, tree.project) = {task.id : task \in TaskNodes(tree)}
        /\ RowsOfProject(todos, tree.project)
             = UNION {{task.todos[i].id : i \in DOMAIN task.todos} : task \in TaskNodes(tree)}

\* C20: whenever createPhase stores a Phase for a payload whose actualEnd is
\* set (non-empty after trimming), the tree getHierarchy builds from the
\* stored tables shows that Phase with status DONE, without Works and with
\* progress 100.
C20_CreatedFinishedPhaseReadsDone ==
  [][(resp' = Reply(201) /\ DOMAIN phases' /= DOMAIN phases) =>
       \A payload \in PlanningPayloads :
         (Present(payload.actualEnd) /\ createPhase(payload)) =>
           LET p == payload.projectId
               after == [phases |-> phases', works |-> works', tasks |-> tasks', todos |-> todos']
               tree == TreeOf(listHierarchyIn(after, p), p)
           IN  \E i \in DOMAIN tree.phases :
                 /\ tree.phases[i].id = nextId'
                 /\ tree.phases[i].status = "DONE"
                 /\ tree.phases[i].works = <<>>
                 /\ tree.phases[i].progress = 100]_vars

\* a Phase with actualEnd set has just been created as the second Phase of
\* its project
C20_Witness ==
  /\ resp = Reply(201)
  /\ nextId \in DOMAIN phases
  /\ phases[nextId].actualEnd = Date1
  /\ phases[nextId].orderIndex = 1

KeepsReferences(before, after, parent) ==
  \A k \in DOMAIN before :
    /\ k \in DOMAIN after
    /\ after[k].projectId = before[k].projectId
    /\ after[k][parent] = before[k][parent]

\* C22: whenever an update is answered with success, every Phase, Work, Task
\* and Todo is still stored under its id with the projectId and the parent
\* reference (phaseId, workId, taskId) it had.
C22_UpdateKeepsIdentityAndParent ==
  [][resp' = Reply(200) =>
       /\ KeepsReferences(phases, phases', "projectId")
       /\ KeepsReferences(works, works', "phaseId")
       /\ KeepsReferences(tasks, tasks', "workId")
       /\ KeepsReferences(todos, todos', "taskId")]_vars

\* the tree without the children a toggle hides
Pruned(tree, show) ==
  LET task(t) == [t EXCEPT !.todos = IF Shown(show.todos, t.id) THEN @ ELSE <<>>]
      work(w) == [w EXCEPT !.tasks = IF Shown(show.tasks, w.id)
                                     THEN [k \in DOMAIN @ |-> task(@[k])] ELSE <<>>]
      phase(p) == [p EXCEPT !.works = IF Shown(show.works, p.id)
                                      THEN [j \in DOMAIN @ |-> work(@[j])] ELSE <<>>]
  IN  [i \in DOMAIN tree |-> phase(tree[i])]

AllShown == [works |-> EmptyTable, tasks |-> EmptyTable, todos |-> EmptyTable]

\* the ids of the Works and Tasks, and of the Todos, below a switched-off toggle
HiddenRows(tree, show) ==
  UNION {IF ~Shown(show.works, tree[i].id)
         THEN UNION {{tree[i].works[j].id}
                     \cup {tree[i].works[j].tasks[k].id : k \in DOMAIN tree[i].works[j].tasks} :
                       j \in DOMAIN tree[i].works}
         ELSE UNION {IF ~Shown(show.tasks, tree[i].works[j].id)
                     THEN {tree[i].works[j].tasks[k].id : k \in DOMAIN tree[i].works[j].tasks}
                     ELSE {} : j \in DOMAIN tree[i].works} : i \in DOMAIN tree}
HiddenTodos(tree, show) ==
  UNION {UNION {UNION {IF Shown(show.works, tree[i].id) /\ Shown(show.tasks, tree[i].works[j].id)
                          /\ Shown(show.todos, tree[i].works[j].tasks[k].id)
                       THEN {}
                       ELSE {tree[i].works[j].tasks[k].todos[l].id :
                               l \in DOMAIN tree[i].works[j].tasks[k].todos} :
                         k \in DOMAIN tree[i].works[j].tasks} :
                  j \in DOMAIN tree[i].works} : i \in DOMAIN tree}

\* C23: the chart has no row for a Work or Task below a switched-off
\* show-works or show-tasks toggle and no marker for a Todo below a
\* switched-off toggle of its Task, Work or Phase, and its rows, markers and
\* timeline bounds are those of the tree without the hidden items.
C23_CollapsedBranchesLeaveRowsMarkersAndBounds ==
  call.fn = "GanttChart" =>
    LET without == GanttChart(Pruned(call.phases, call.show), AllShown, call.now, call.tz)
    IN  /\ \A i \in DOMAIN call.rows : call.rows[i].id \notin HiddenRows(call.phases, call.show)
        /\ \A i \in DOMAIN call.todoMarkers :
             call.todoMarkers[i].id \notin HiddenTodos(call.phases, call.show)
        /\ call.rows = without.rows
        /\ call.todoMarkers = without.todoMarkers
        /\ call.minStart = without.minStart
        /\ call.maxEnd = without.maxEnd

\* the chart is drawn with the Task's Todos hidden, and its lower bound is
\* not the one it has with everything shown
C23_Witness ==
  /\ call.fn = "GanttChart"
  /\ ~Shown(call.show.todos, 3)
  /\ Shown(call.show.works, 1)
  /\ Shown(call.show.tasks, 2)
  /\ call.minStart /= GanttChart(call.phases, AllShown, call.now, call.tz).minStart

\* the planned, actual and due dates of the visible rows and markers, and the
\* current time where an actual bar is still open
VisibleDates(c) ==
  LET Rows == {c.rows[i] : i \in DOMAIN c.rows}
  IN  ({row.plannedStart : row \in Rows} \cup {row.plannedEnd : row \in Rows}
       \cup {row.actualStart : row \in Rows} \cup {row.actualEnd : row \in Rows}
       \cup {c.todoMarkers[i].due : i \in DOMAIN c.todoMarkers}
       \cup {c.now : row \in {r \in Rows : r.actualStart /= NoTime /\ r.actualEnd = NoTime}})
      \ {NoTime}

\* the instants a bar is drawn from and to
BarInstants(c) ==
  UNION {{c.rows[i].plannedStart, c.rows[i].plannedEnd} :
           i \in {j \in DOMAIN c.bars : c.bars[j].planned /= <<>>}}
  \cup UNION {{c.bars[i].actual[1].from, c.bars[i].actual[1].to} :
                i \in {j \in DOMAIN c.bars : c.bars[j].actual /= <<>>}}
  \cup {c.todoMarkers[i].due : i \in DOMAIN c.markers}

\* C24: when a visible row or marker has a date, minStart is the start of the
\* day of the earliest visible date minus 3 days, maxEnd the start of the day
\* of the latest plus 7 days, and every instant a planned bar, an actual bar
\* or a marker is drawn at has a position from 0 to the timeline width.
C24_BoundsPadEarliestAndLatest ==
  (call.fn = "GanttChart" /\ VisibleDates(call) /= {}) =>
    /\ call.minStart = startOfDay(Least(VisibleDates(call)) - 3 * DAY_MS, call.tz)
    /\ call.maxEnd = startOfDay(Greatest(VisibleDates(call)) + 7 * DAY_MS, call.tz)
    /\ \A t \in BarInstants(call) :
         /\ Left(t, call.minStart) >= 0
         /\ Left(t, call.minStart) <= call.timelineWidth

\* the Phase, Work or Task of a tree that a row stands for
GanttNodes(tree) ==
  UNION {{tree[i]}
         \cup UNION {{tree[i].works[j]}
                     \cup {tree[i].works[j].tasks[k] : k \in DOMAIN tree[i].works[j].tasks} :
                       j \in DOMAIN tree[i].works} : i \in DOMAIN tree}
NodeOf(tree, id) == CHOOSE node \in GanttNodes(tree) : node.id = id

\* the actual bar of row i runs from one instant to another, drawn at their
\* positions
ActualBarSpans(c, i, from, to) ==
  /\ c.bars[i].actual /= <<>>
  /\ c.bars[i].actual[1].left = Left(from, c.minStart)
  /\ c.bars[i].actual[1].left + c.bars[i].actual[1].width = Left(to, c.minStart)

\* the same, the bar being drawn at least half a day wide
ActualBarSpansAtLeastHalfDay(c, i, from, to) ==
  /\ c.bars[i].actual /= <<>>
  /\ c.bars[i].actual[1].left = Left(from, c.minStart)
  /\ c.bars[i].actual[1].width = Max(Left(to, c.minStart) - Left(from, c.minStart), DAY_WIDTH \div 2)

BadDate(value) == ~Truthy(value) \/ value \notin DOMAIN GanttDays

\* the tree with every bad date left out
Absent(value) == IF BadDate(value) THEN Null ELSE value
WithoutBadDates(tree) ==
  LET dates(n) == [n EXCEPT !.plannedStart = Absent(@), !.plannedEnd = Absent(@),
                            !.actualStart = Absent(@), !.actualEnd = Absent(@)]
      todo(d) == [d EXCEPT !.dueDate = Absent(@)]
      task(t) == [dates(t) EXCEPT !.todos = [l \in DOMAIN @ |-> todo(@[l])]]
      work(w) == [dates(w) EXCEPT !.tasks = [k \in DOMAIN @ |-> task(@[k])]]
      phase(p) == [dates(p) EXCEPT !.works = [j \in DOMAIN @ |-> work(@[j])]]
  IN  [i \in DOMAIN tree |-> phase(tree[i])]

\* the ids of the Phases, Works and Tasks no toggle hides, in tree order
VisibleIds(tree, show) ==
  LET pruned == Pruned(tree, show)
      ofWork(w) == <<w.id>> \o [k \in DOMAIN w.tasks |-> w.tasks[k].id]
      ofPhase(p) == <<p.id>> \o Flatten([j \in DOMAIN p.works |-> ofWork(p.works[j])])
  IN  Flatten([i \in DOMAIN pruned |-> ofPhase(pruned[i])])

\* the Todos of the tree
GanttTodos(tree) ==
  UNION {{node.todos[l] : l \in DOMAIN node.todos} :
           node \in {n \in GanttNodes(tree) : "todos" \in DOMAIN n}}

\* C28: every rendering has one row for each visible Phase, Work and Task; a
\* row whose planned start or planned end is missing or unparseable has no
\* planned bar, a Todo whose due date is missing or unparseable has no
\* marker, and rows, bars, markers and bounds are those of the tree with the
\* bad dates left out.
C28_BadDatesOnlySuppressTheirBarOrMarker ==
  call.fn = "GanttChart" =>
    LET without == GanttChart(WithoutBadDates(call.phases), call.show, call.now, call.tz)
    IN  /\ [i \in DOMAIN call.rows |-> call.rows[i].id] = VisibleIds(call.phases, call.show)
        /\ \A i \in DOMAIN call.bars :
             LET node == NodeOf(call.phases, call.rows[i].id)
             IN  (BadDate(node.plannedStart) \/ BadDate(node.plannedEnd))
                   => call.bars[i].planned = <<>>
        /\ \A todo \in GanttTodos(call.phases) :
             BadDate(todo.dueDate) =>
               \A i \in DOMAIN call.markers : call.markers[i].id /= todo.id
        /\ call.rows = without.rows
        /\ call.bars = without.bars
        /\ call.markers = without.markers
        /\ call.minStart = without.minStart
        /\ call.maxEnd = without.maxEnd

\* the chart shows a Phase whose planned start is unparseable, without a
\* planned bar, above a Work with a planned bar, and no marker for the Todo,
\* whose due date is unparseable
C28_Witness ==
  /\ call.fn = "GanttChart"
  /\ Len(call.bars) = 3
  /\ call.phases[1].plannedStart = Unparseable
  /\ call.bars[1].planned = <<>>
  /\ call.bars[2].planned /= <<>>
  /\ call.phases[1].works[1].tasks[1].todos[1].dueDate = Unparseable
  /\ call.markers = <<>>

\* the value a supplied date is stored as: trimmed, NULL when nothing is left
StoredDate(value) == IF Trim(value) = Empty THEN Null ELSE Trim(value)

BothServed == net /= NoRequests /\ Waiting = {}
ServedAs(k) == CHOOSE r \in net : r.served = k

LastWriteWins(row, first, last, field) ==
  IF last.patch[field] /= Undefined THEN row[field] = StoredDate(last.patch[field])
  ELSE first.patch[field] /= Undefined => row[field] = StoredDate(first.patch[field])

\* C29: for two patches to the same Phase, Work or Task handled in either
\* order, a date supplied by both ends with the value of the patch handled
\* last, a date supplied by only one keeps that patch's value, the final
\* status is the one derived from the final actualStart and actualEnd, and
\* both patches are accepted
C29_TwoPatchesLastWriteWins ==
  BothServed =>
    LET first == ServedAs(1)
        last == ServedAs(2)
        row == TableOf(last.type)[last.id]
    IN  /\ first.status = 200
        /\ last.status = 200
        /\ LastWriteWins(row, first, last, "actualStart")
        /\ LastWriteWins(row, first, last, "actualEnd")
        /\ row.status = SpecStatus(row.actualStart, row.actualEnd)

\* the patch sent second is handled first: it sets both dates, the patch
\* handled last moves the start only, and the Work stays DONE
C29_Witness ==
  /\ BothServed
  /\ ServedAs(1).n = 2
  /\ ServedAs(1).type = "works"
  /\ ServedAs(1).patch = [actualStart |-> Date1, actualEnd |-> Tomorrow]
  /\ ServedAs(2).patch = [actualStart |-> Tomorrow, actualEnd |-> Undefined]
  /\ works[3].actualStart = Tomorrow
  /\ works[3].actualEnd = Tomorrow
  /\ works[3].status = "DONE"

\* every request has been answered and every answer has reached the browser
Quiet == ui /= NoUi /\ net = NoRequests

\* C30: once all in-flight requests have completed, the hierarchy and the
\* today's-todo list the client shows are those of the selected project as
\* the server holds them, whatever the order in which the responses arrived
C30_SettledClientShowsSelectedProject ==
  (Quiet /\ ProjectShown(ui)) =>
    /\ ui.selectedProjectId \in projects
    /\ ui.hierarchy = HierarchyTree(ui.selectedProjectId)
    /\ ui.todayTodos = listTodayTodosRows(ui.selectedProjectId, NoFilter)

\* the reply r to a mutation reports a failure and reaches the browser in this step
FailedMutationArrives(r) ==
  /\ r.then = "mutate"
  /\ r.reply.status /= 0
  /\ ~Ok(r)
  /\ r \notin net'

\* C25: when a mutation request fails (an inline title edit whose PATCH is
\* rejected), the UI shows an error and the edited field again displays the
\* value it had before the edit
C25_FailedMutationShowsErrorAndReverts ==
  [][\A r \in net :
       (FailedMutationArrives(r) /\ r.input \in DOMAIN ui'.drafts) =>
         /\ ui'.error /= Empty
         /\ ui'.drafts[r.input] = TitleOf(ui'.hierarchy, r.input)]_vars

\* C26: every change of the hierarchy data or of a toggle and every viewport
\* resize is followed by a new measurement pass, a pass not yet run when the
\* next change arrives is cancelled, so at most one pass is pending, and the
\* rectangles in use are those of the latest pass: whenever the rows are
\* rendered and no pass is pending, the rectangles are those of the rows as
\* rendered
C26_RenderedRowsAreMeasured ==
  LayoutOpen =>
    /\ Cardinality(ui.frames) <= 1
    /\ (ui.root /= 0 /\ ui.frames = {}) => ui.rects = ui.layout

====
